---- MODULE Spec2Model ----
(***************************************************************************)
(* DataViz Pro: file ingestion and per-session state of the Streamlit app  *)
(* (src/app.py) and of the Flask app (src/flask_app.py).                   *)
(*                                                                         *)
(* Representation.                                                         *)
(*  - A filename is a sequence of one-character strings, so that           *)
(*    rsplit('.', 1), lower() and endswith() are computed, not assumed.    *)
(*  - A cell is a record [k, i, s]: k = "nan" (missing), "int", "str" or  *)
(*    "date"; a column name is the value of a header cell.                 *)
(*  - A table row block ("run") is [cells, n]: n consecutive rows that     *)
(*    hold the same cells.  Row counts such as MAX_ROWS = 100000 are kept  *)
(*    at their real value; only the number of distinct runs is small.      *)
(*  - A DataFrame is [cols, dtypes, rows]: column names, one dtype per     *)
(*    column, and the runs.                                                *)
(***************************************************************************)
EXTENDS Integers, Sequences, FiniteSets, TLC

VARIABLES
  app,     \* which program runs: "streamlit" (app.py) or "flask" (flask_app.py)
  pool,    \* which family of input files the environment offers
  st,      \* st.session_state of the Streamlit session
  fl,      \* the Flask session (signed cookie) of each client
  disk,    \* DATA_FOLDER: the pickled frame stored for each session id
  clock,   \* datetime.now(), as a logical clock
  quota,   \* requests still allowed within the bound
  last,    \* the last request and its response
  work     \* a frame handed to optimize_dtypes directly, and what came back

vars == <<app, pool, st, fl, disk, clock, quota, last, work>>

-----------------------------------------------------------------------------
(* Program constants.                                                      *)

MAX_FILE_SIZE_MB == 50
MAX_ROWS == 100000
PREVIEW_ROWS == 10000
CHUNK_SIZE == 50000
HISTORY_CAP == 10
MAX_CONTENT_LENGTH_MB == 50
HEADER_SCAN_ROWS == 10

MB == 1024 * 1024

DOT == "."

ExtXlsx == <<"x", "l", "s", "x">>
ExtXls == <<"x", "l", "s">>
ExtCsv == <<"c", "s", "v">>

ALLOWED_EXTENSIONS == {ExtXlsx, ExtXls, ExtCsv}

-----------------------------------------------------------------------------
(* Generic sequence helpers.                                               *)

Min2(a, b) == IF a < b THEN a ELSE b

RECURSIVE SeqFilterIdx(_, _, _)
\* the subsequence of s at the positions i (in order) with keep[i]
SeqFilterIdx(s, keep, i) ==
  IF i > Len(s) THEN <<>>
  ELSE (IF keep[i] THEN <<s[i]>> ELSE <<>>) \o SeqFilterIdx(s, keep, i + 1)

RECURSIVE SumSeq(_)
SumSeq(s) == IF s = <<>> THEN 0 ELSE Head(s) + SumSeq(Tail(s))

-----------------------------------------------------------------------------
(* Characters and filenames: str.lower, str.rsplit('.', 1)[1],              *)
(* str.endswith, secure_filename.                                          *)
(* A character is a string of length 1.  The texts and names of the model  *)
(* are written in the characters of CodePoints: tab, line feed, form feed, *)
(* carriage return, the printable ASCII characters (but the grave accent,  *)
(* which no string written here can hold) and U+00A0..U+00FF, in the order *)
(* of their code points.                                                   *)

CodePoints ==
  <<"\t", "\n", "\f", "\r", " ", "!", "\"", "#", "$", "%", "&", "'", "(",
    ")", "*", "+", ",", "-", ".", "/", "0", "1", "2", "3", "4", "5", "6",
    "7", "8", "9", ":", ";", "<", "=", ">", "?", "@", "A", "B", "C", "D",
    "E", "F", "G", "H", "I", "J", "K", "L", "M", "N", "O", "P", "Q", "R",
    "S", "T", "U", "V", "W", "X", "Y", "Z", "[", "\\", "]", "^", "_",
    "a", "b", "c", "d", "e", "f", "g", "h", "i", "j", "k", "l", "m", "n",
    "o", "p", "q", "r", "s", "t", "u", "v", "w", "x", "y", "z", "{", "|",
    "}", "~", " ", "¡", "¢", "£", "¤", "¥", "¦", "§", "¨", "©", "ª", "«",
    "¬", "­", "®", "¯", "°", "±", "²", "³", "´", "µ", "¶", "·", "¸", "¹",
    "º", "»", "¼", "½", "¾", "¿", "À", "Á", "Â", "Ã", "Ä", "Å", "Æ", "Ç",
    "È", "É", "Ê", "Ë", "Ì", "Í", "Î", "Ï", "Ð", "Ñ", "Ò", "Ó", "Ô", "Õ",
    "Ö", "×", "Ø", "Ù", "Ú", "Û", "Ü", "Ý", "Þ", "ß", "à", "á", "â", "ã",
    "ä", "å", "æ", "ç", "è", "é", "ê", "ë", "ì", "í", "î", "ï", "ð", "ñ",
    "ò", "ó", "ô", "õ", "ö", "÷", "ø", "ù", "ú", "û", "ü", "ý", "þ", "ÿ">>

\* ord(c) up to an increasing renumbering: the place of c in CodePoints
Ord(c) == CHOOSE i \in 1..Len(CodePoints) : CodePoints[i] = c

\* the characters from lo to hi
CharRange(lo, hi) == {CodePoints[i] : i \in Ord(lo)..Ord(hi)}

AsciiChars == CharRange("\t", "~")

RECURSIVE StrLess(_, _)
\* s < t for two str values: by the code points of their characters
StrLess(s, t) ==
  IF t = "" THEN FALSE
  ELSE IF s = "" THEN TRUE
  ELSE IF SubSeq(s, 1, 1) /= SubSeq(t, 1, 1)
       THEN Ord(SubSeq(s, 1, 1)) < Ord(SubSeq(t, 1, 1))
       ELSE StrLess(SubSeq(s, 2, Len(s)), SubSeq(t, 2, Len(t)))

\* the characters c with c.lower() /= c, and c.lower() at the same place
Uppers ==
  <<"A", "B", "C", "D", "E", "F", "G", "H", "I", "J", "K", "L", "M", "N",
    "O", "P", "Q", "R", "S", "T", "U", "V", "W", "X", "Y", "Z", "À", "Á",
    "Â", "Ã", "Ä", "Å", "Æ", "Ç", "È", "É", "Ê", "Ë", "Ì", "Í", "Î", "Ï",
    "Ð", "Ñ", "Ò", "Ó", "Ô", "Õ", "Ö", "Ø", "Ù", "Ú", "Û", "Ü", "Ý", "Þ">>

Lowers ==
  <<"a", "b", "c", "d", "e", "f", "g", "h", "i", "j", "k", "l", "m", "n",
    "o", "p", "q", "r", "s", "t", "u", "v", "w", "x", "y", "z", "à", "á",
    "â", "ã", "ä", "å", "æ", "ç", "è", "é", "ê", "ë", "ì", "í", "î", "ï",
    "ð", "ñ", "ò", "ó", "ô", "õ", "ö", "ø", "ù", "ú", "û", "ü", "ý", "þ">>

LowerChar(c) ==
  IF \E i \in 1..Len(Uppers) : Uppers[i] = c
  THEN Lowers[CHOOSE i \in 1..Len(Uppers) : Uppers[i] = c]
  ELSE c

Lower(s) == [i \in 1..Len(s) |-> LowerChar(s[i])]

HasDot(fn) == \E i \in 1..Len(fn) : fn[i] = DOT

\* index of the last '.', 0 when there is none
LastDot(fn) ==
  IF HasDot(fn)
  THEN CHOOSE i \in 1..Len(fn) :
         fn[i] = DOT /\ \A j \in (i + 1)..Len(fn) : fn[j] /= DOT
  ELSE 0

\* filename.rsplit('.', 1)[1]
RSplitExt(fn) == SubSeq(fn, LastDot(fn) + 1, Len(fn))

EndsWith(fn, suf) ==
  /\ Len(fn) >= Len(suf)
  /\ SubSeq(fn, Len(fn) - Len(suf) + 1, Len(fn)) = suf

allowed_file(fn) == HasDot(fn) /\ Lower(RSplitExt(fn)) \in ALLOWED_EXTENSIONS

RECURSIVE StripLeft(_)
StripLeft(fn) ==
  IF fn /= <<>> /\ Head(fn) \in {DOT, "_"} THEN StripLeft(Tail(fn)) ELSE fn

RECURSIVE StripRight(_)
StripRight(fn) ==
  IF fn /= <<>> /\ fn[Len(fn)] \in {DOT, "_"}
  THEN StripRight(SubSeq(fn, 1, Len(fn) - 1))
  ELSE fn

\* unicodedata.normalize("NFKD", c).encode("ascii", "ignore"): the ASCII
\* characters of the compatibility decomposition of c.  Folded lists the
\* characters above U+007F that leave any, FoldedTo what they leave; every
\* other character that is not ASCII leaves nothing
Folded ==
  <<" ", "¨", "ª", "¯", "²", "³", "´", "¸", "¹", "º", "¼", "½", "¾", "À",
    "Á", "Â", "Ã", "Ä", "Å", "Ç", "È", "É", "Ê", "Ë", "Ì", "Í", "Î", "Ï",
    "Ñ", "Ò", "Ó", "Ô", "Õ", "Ö", "Ù", "Ú", "Û", "Ü", "Ý", "à", "á", "â",
    "ã", "ä", "å", "ç", "è", "é", "ê", "ë", "ì", "í", "î", "ï", "ñ", "ò",
    "ó", "ô", "õ", "ö", "ù", "ú", "û", "ü", "ý", "ÿ">>

FoldedTo ==
  <<<<" ">>, <<" ">>, <<"a">>, <<" ">>, <<"2">>, <<"3">>, <<" ">>, <<" ">>,
    <<"1">>, <<"o">>, <<"1", "4">>, <<"1", "2">>, <<"3", "4">>, <<"A">>,
    <<"A">>, <<"A">>, <<"A">>, <<"A">>, <<"A">>, <<"C">>, <<"E">>, <<"E">>,
    <<"E">>, <<"E">>, <<"I">>, <<"I">>, <<"I">>, <<"I">>, <<"N">>, <<"O">>,
    <<"O">>, <<"O">>, <<"O">>, <<"O">>, <<"U">>, <<"U">>, <<"U">>, <<"U">>,
    <<"Y">>, <<"a">>, <<"a">>, <<"a">>, <<"a">>, <<"a">>, <<"a">>, <<"c">>,
    <<"e">>, <<"e">>, <<"e">>, <<"e">>, <<"i">>, <<"i">>, <<"i">>, <<"i">>,
    <<"n">>, <<"o">>, <<"o">>, <<"o">>, <<"o">>, <<"o">>, <<"u">>, <<"u">>,
    <<"u">>, <<"u">>, <<"y">>, <<"y">>>>

AsciiFold(c) ==
  IF \E i \in 1..Len(Folded) : Folded[i] = c
  THEN FoldedTo[CHOOSE i \in 1..Len(Folded) : Folded[i] = c]
  ELSE IF c \in AsciiChars THEN <<c>>
  ELSE <<>>

RECURSIVE FoldAll(_)
FoldAll(fn) == IF fn = <<>> THEN <<>> ELSE AsciiFold(Head(fn)) \o FoldAll(Tail(fn))

\* os.sep, replaced by a space (os.path.altsep is None)
PathSeps == {"/"}

\* the characters of CodePoints that str.split() splits at
Whitespace == {" ", "\t", "\n", "\r", "\f"}

\* the characters [A-Za-z0-9_.-], which _filename_ascii_strip_re keeps
SafeChars ==
  CharRange("A", "Z") \cup CharRange("a", "z") \cup CharRange("0", "9")
    \cup {"_", DOT, "-"}

RECURSIVE SplitJoin(_, _, _)
\* "_".join(filename.split()): the words of the name joined by '_'; `gap`
\* when whitespace was met since the last character of a word
SplitJoin(fn, started, gap) ==
  IF fn = <<>> THEN <<>>
  ELSE IF Head(fn) \in Whitespace THEN SplitJoin(Tail(fn), started, started)
  ELSE (IF gap THEN <<"_">> ELSE <<>>) \o <<Head(fn)>> \o SplitJoin(Tail(fn), TRUE, FALSE)

\* werkzeug secure_filename (on a POSIX system)
secure_filename(fn) ==
  LET ascii == FoldAll(fn)
      spaced == [i \in 1..Len(ascii) |-> IF ascii[i] \in PathSeps THEN " " ELSE ascii[i]]
      joined == SplitJoin(spaced, FALSE, FALSE)
  IN StripRight(StripLeft(SelectSeq(joined, LAMBDA c : c \in SafeChars)))

IsCsvName(fn) == EndsWith(fn, <<DOT>> \o ExtCsv)

IsExcelName(fn) ==
  EndsWith(fn, <<DOT>> \o ExtXlsx) \/ EndsWith(fn, <<DOT>> \o ExtXls)

-----------------------------------------------------------------------------
(* Cells, runs of rows and DataFrames.                                     *)

NaN == [k |-> "nan", i |-> 0, s |-> ""]
IntCell(v) == [k |-> "int", i |-> v, s |-> ""]
StrCell(t) == [k |-> "str", i |-> 0, s |-> t]
\* a date cell of a sheet, held as a day number
DateCell(d) == [k |-> "date", i |-> d, s |-> ""]

\* pd.isna / pd.notna
IsNa(c) == c.k = "nan"
NotNa(c) == c.k /= "nan"

Run(cells, n) == [cells |-> cells, n |-> n]

\* number of rows held by a sequence of runs
NRows(rs) == SumSeq([r \in 1..Len(rs) |-> rs[r].n])

RECURSIVE TakeRows(_, _)
\* the first k rows
TakeRows(rs, k) ==
  IF k <= 0 \/ rs = <<>> THEN <<>>
  ELSE IF Head(rs).n <= k
       THEN <<Head(rs)>> \o TakeRows(Tail(rs), k - Head(rs).n)
       ELSE <<Run(Head(rs).cells, k)>>

RECURSIVE DropRows(_, _)
\* all rows but the first k
DropRows(rs, k) ==
  IF k <= 0 \/ rs = <<>> THEN rs
  ELSE IF Head(rs).n <= k
       THEN DropRows(Tail(rs), k - Head(rs).n)
       ELSE <<Run(Head(rs).cells, Head(rs).n - k)>> \o Tail(rs)

\* cells of the row at 0-based position idx (idx < NRows(rs))
RowAt(rs, idx) == Head(DropRows(rs, idx)).cells

\* A DataFrame is [cols, dtypes, rows, index]: index[r] is the index label
\* of the first row of the block rows[r]; the rows of a block carry
\* consecutive labels.

\* pd.DataFrame()
EmptyFrame == [cols |-> <<>>, dtypes |-> <<>>, rows |-> <<>>, index |-> <<>>]

\* the labels a RangeIndex that begins at `start` gives to the blocks rs
RangeStarts(rs, start) == [r \in 1..Len(rs) |-> start + NRows(SubSeq(rs, 1, r - 1))]

\* len(df), len(df.columns), df.empty
FrameLen(df) == NRows(df.rows)
NCols(df) == Len(df.cols)
IsEmptyFrame(df) == NCols(df) = 0 \/ FrameLen(df) = 0

\* str() of a date: the day number d stands for the d-th day of a month
DateStr(d) == "2024-01-" \o (IF d < 10 THEN "0" ELSE "") \o ToString(d) \o " 00:00:00"

\* a column name is the value of a header cell: a text, a number or a date
Named(c) == [k |-> c.k, t |-> c.s, j |-> c.i]
TextName(t) == Named(StrCell(t))

\* pandas' placeholder for an empty header cell at position j
Unnamed(j) == TextName("Unnamed: " \o ToString(j))

\* str(col)
NameStr(col) ==
  IF col.k = "str" THEN col.t
  ELSE IF col.k = "date" THEN DateStr(col.j)
  ELSE ToString(col.j)

\* pat in s
Contains(s, pat) ==
  \E i \in 1..(Len(s) - Len(pat) + 1) : SubSeq(s, i, i + Len(pat) - 1) = pat

\* 'Unnamed:' in str(col)
IsUnnamed(col) == Contains(NameStr(col), "Unnamed:")

\* counts of the names given so far (a defaultdict(int))
Count(counts, c) == IF c \in DOMAIN counts THEN counts[c] ELSE 0
Put(counts, c, n) == [x \in DOMAIN counts \cup {c} |-> IF x = c THEN n ELSE counts[x]]

\* f"{old_col}.{cur_count}"
Suffixed(old_col, cur_count) == TextName(NameStr(old_col) \o "." \o ToString(cur_count))

\* the one element of a singleton
Only(S) == CHOOSE x \in S : TRUE

RECURSIVE MangleLoop(_, _, _, _, _)
\* the while loop that renames a repeated name: [col, cur_count, counts]
MangleLoop(old_col, col, cur_count, counts, this_columns) ==
  IF cur_count > 0
  THEN Only({MangleLoop(old_col, next, n, counted, this_columns) :
               counted \in {Put(counts, old_col, cur_count + 1)},
               next \in {Suffixed(old_col, cur_count)},
               n \in {IF \E i \in 1..Len(this_columns) :
                            this_columns[i] = Suffixed(old_col, cur_count)
                       THEN cur_count + 1
                       ELSE Count(Put(counts, old_col, cur_count + 1),
                                  Suffixed(old_col, cur_count))}})
  ELSE [col |-> col, cur_count |-> cur_count, counts |-> counts]

RECURSIVE DedupLoop(_, _, _)
\* the loop over col_loop_order
DedupLoop(order, this_columns, counts) ==
  IF order = <<>> THEN this_columns
  ELSE Only({Only({DedupLoop(rest, cols, cnt) :
                     rest \in {Tail(order)},
                     cols \in {[this_columns EXCEPT ![Head(order)] = m.col]},
                     cnt \in {Put(m.counts, m.col, m.cur_count + 1)}}) :
               m \in {MangleLoop(this_columns[Head(order)], this_columns[Head(order)],
                                 Count(counts, this_columns[Head(order)]), counts,
                                 this_columns)}})

\* the column names pandas makes of a header row: "Unnamed: j" for an empty
\* cell, and a repeated name renamed name.1, name.2, ...; the names of the
\* header cells are settled before the placeholders
HeaderNames(cells) ==
  LET idx == [j \in 1..Len(cells) |-> j]
      this_columns == [j \in 1..Len(cells) |->
                         IF IsNa(cells[j]) THEN Unnamed(j - 1) ELSE Named(cells[j])]
      regular == SeqFilterIdx(idx, [j \in 1..Len(cells) |-> NotNa(cells[j])], 1)
      unnamed_cols == SeqFilterIdx(idx, [j \in 1..Len(cells) |-> IsNa(cells[j])], 1)
  IN Only({DedupLoop(order, cols, <<>>) :
             order \in {regular \o unnamed_cols}, cols \in {this_columns}})

\* the dtype pandas infers for column j of the data rows
InferDtype(rs, j) ==
  IF rs = <<>> THEN "object"
  ELSE IF \E r \in 1..Len(rs) : rs[r].cells[j].k = "str" THEN "object"
  ELSE IF \E r \in 1..Len(rs) : rs[r].cells[j].k = "date"
       THEN (IF \A r \in 1..Len(rs) : rs[r].cells[j].k \in {"date", "nan"}
             THEN "datetime64" ELSE "object")
  ELSE IF \E r \in 1..Len(rs) : rs[r].cells[j].k = "nan" THEN "float64"
  ELSE "int64"

\* the table parsed with row `h` as header and at most `nrows` data rows
ParseTable(raw, h, nrows) ==
  LET hdr == RowAt(raw, h)
      data == TakeRows(DropRows(raw, h + 1), nrows)
  IN [cols |-> HeaderNames(hdr),
      dtypes |-> [j \in 1..Len(hdr) |-> InferDtype(data, j)],
      rows |-> data,
      index |-> RangeStarts(data, 0)]

\* the text of a field of a delimited file
FieldText(c) ==
  IF c.k = "str" THEN c.s
  ELSE IF c.k = "date" THEN DateStr(c.i)
  ELSE ToString(c.i)

\* the fields of the header line: every name of a delimited file is a text
CsvHeader(cells) ==
  [j \in 1..Len(cells) |-> IF IsNa(cells[j]) THEN NaN ELSE StrCell(FieldText(cells[j]))]

RECURSIVE BufferLoop(_, _)
\* while buffer_lines * 2 < heuristic: buffer_lines *= 2
BufferLoop(buffer_lines, heuristic) ==
  IF buffer_lines * 2 < heuristic THEN BufferLoop(buffer_lines * 2, heuristic)
  ELSE buffer_lines

\* the number of lines the parser of pd.read_csv converts at a time
\* (low_memory=True): a power of two near 2**20 // table_width
BufferLines(table_width) ==
  BufferLoop(1, IF table_width = 0 THEN 2 ^ 20 ELSE (2 ^ 20) \div table_width)

\* the lines converted together: a column with a field that is not a number
\* keeps every field as its text, a column of numbers and empty fields is
\* converted to numbers
ConvertLines(rs) ==
  LET text == [j \in 1..Len(Head(rs).cells) |->
                 \E r \in 1..Len(rs) : rs[r].cells[j].k \in {"str", "date"}]
  IN [r \in 1..Len(rs) |->
        Run([j \in 1..Len(rs[r].cells) |->
               IF text[j] /\ NotNa(rs[r].cells[j])
               THEN StrCell(FieldText(rs[r].cells[j]))
               ELSE rs[r].cells[j]],
            rs[r].n)]

RECURSIVE CsvRows(_, _)
\* the data lines converted buffer_lines at a time and put together again
CsvRows(rs, buffer_lines) ==
  IF rs = <<>> THEN <<>>
  ELSE ConvertLines(TakeRows(rs, buffer_lines))
         \o CsvRows(DropRows(rs, buffer_lines), buffer_lines)

\* pd.read_csv of the data lines `data` under the header line `hdr`, the
\* first of them with index label `start`
ParseCsv(hdr, data, start) ==
  LET rows == CsvRows(data, BufferLines(Len(hdr)))
  IN [cols |-> HeaderNames(CsvHeader(hdr)),
      dtypes |-> [j \in 1..Len(hdr) |-> InferDtype(rows, j)],
      rows |-> rows,
      index |-> RangeStarts(rows, start)]

-----------------------------------------------------------------------------
(* DataFrame.dropna(axis=1, how='all') and dropna(axis=0, how='all').      *)

\* column j holds no value in any row (every column of a 0-row frame)
ColAllNa(df, j) == \A r \in 1..Len(df.rows) : IsNa(df.rows[r].cells[j])

\* the row block holds no value in any column (every row of a 0-column frame)
RowAllNa(run) == \A j \in 1..Len(run.cells) : IsNa(run.cells[j])

DropNaCols(df) ==
  LET keep == [j \in 1..NCols(df) |-> ~ColAllNa(df, j)]
  IN [cols |-> SeqFilterIdx(df.cols, keep, 1),
      dtypes |-> SeqFilterIdx(df.dtypes, keep, 1),
      rows |-> [r \in 1..Len(df.rows) |->
                 Run(SeqFilterIdx(df.rows[r].cells, keep, 1), df.rows[r].n)],
      index |-> df.index]

\* the rows that are left keep their index labels
DropNaRows(df) ==
  LET keep == [r \in 1..Len(df.rows) |-> ~RowAllNa(df.rows[r])]
  IN [df EXCEPT !.rows = SeqFilterIdx(df.rows, keep, 1),
                !.index = SeqFilterIdx(df.index, keep, 1)]

\* df.dropna(axis=1, how='all').dropna(axis=0, how='all')
Clean(df) == DropNaRows(DropNaCols(df))

-----------------------------------------------------------------------------
(* optimize_dtypes: narrowing of numeric column representations.           *)

INT8_MIN == -128
INT8_MAX == 127
INT16_MIN == -32768
INT16_MAX == 32767
INT32_MIN == -2147483647 - 1
INT32_MAX == 2147483647
FLOAT32_EXACT == 16777216

IntDtypes == {"int8", "int16", "int32", "int64"}
FloatDtypes == {"float32", "float64"}
\* the dtypes select_dtypes(include=['number']) keeps
NumericDtypes == IntDtypes \cup FloatDtypes

\* the non-missing values of column j
ColVals(df, j) ==
  {df.rows[r].cells[j].i : r \in {q \in 1..Len(df.rows) : NotNa(df.rows[q].cells[j])}}

SetMin(S) == CHOOSE x \in S : \A y \in S : x <= y
SetMax(S) == CHOOSE x \in S : \A y \in S : x >= y

\* mutant: the limits themselves accepted (>= and <=)
NarrowInt_inclusive(lo, hi, d) ==
  IF lo >= INT8_MIN /\ hi <= INT8_MAX THEN "int8"
  ELSE IF lo >= INT16_MIN /\ hi <= INT16_MAX THEN "int16"
  ELSE IF lo >= INT32_MIN /\ hi <= INT32_MAX THEN "int32"
  ELSE d

\* mutant: only c_max is compared
NarrowInt_maxonly(lo, hi, d) ==
  IF hi < INT8_MAX THEN "int8"
  ELSE IF hi < INT16_MAX THEN "int16"
  ELSE IF hi < INT32_MAX THEN "int32"
  ELSE d

\* the if / elif chain on c_min and c_max of an integer column
NarrowInt(lo, hi, d) ==
  IF lo > INT8_MIN /\ hi < INT8_MAX THEN "int8"
  ELSE IF lo > INT16_MIN /\ hi < INT16_MAX THEN "int16"
  ELSE IF lo > INT32_MIN /\ hi < INT32_MAX THEN "int32"
  ELSE d

RECURSIVE Float32Holds(_)
\* a whole number is a float32 value when its odd part fits the 24-bit
\* significand (numbers here are far below the float32 exponent range)
Float32Holds(v) ==
  IF v < 0 THEN Float32Holds(-v)
  ELSE IF v <= FLOAT32_EXACT THEN TRUE
  ELSE IF v % 2 = 0 THEN Float32Holds(v \div 2)
  ELSE FALSE

\* pd.to_numeric(downcast='float'): float32 when every value survives the
\* cast (a whole number that float32 cannot hold moves by 1 or more, beyond
\* the tolerance of the comparison)
NarrowFloat(vals, d) ==
  IF \A v \in vals : Float32Holds(v) THEN "float32" ELSE d

\* the dtype chosen for column j
OptimizeCol(df, j) ==
  LET d == df.dtypes[j]
      vals == ColVals(df, j)
  IN IF d = "object" THEN d
     ELSE IF d \in IntDtypes
          THEN (IF vals = {} THEN d ELSE NarrowInt(SetMin(vals), SetMax(vals), d))
          ELSE IF d \in FloatDtypes THEN NarrowFloat(vals, d)
          ELSE d

\* the value an integer takes when stored in m = 2^w distinct codes: numpy's
\* astype keeps the low w bits (two's complement)
WrapInt(v, m) ==
  LET r == v % m
  IN IF 2 * r >= m THEN r - m ELSE r

\* Series.astype(d) on one cell; the values held here fit 32 bits, and the
\* float32 cast is only made when NarrowFloat found it exact
CastCell(c, d) ==
  IF c.k /= "int" THEN c
  ELSE IF d = "int8" THEN IntCell(WrapInt(c.i, 256))
  ELSE IF d = "int16" THEN IntCell(WrapInt(c.i, 65536))
  ELSE c

\* except (TypeError, ValueError): continue
ExceptCaught == {"TypeError", "ValueError"}

\* mutant: no try / except around the body of the loop
Swallowed_never(e) == FALSE

Swallowed(e) == e \in ExceptCaught

\* a fault is [col, class]: the exception class that min(), max() or the cast
\* of column `col` raises; col = 0 when nothing raises
NoFault == [col |-> 0, class |-> "none"]

\* what the try block of column j raises ("none": it completes); an object
\* column is skipped before the try block
ColRaises(df, j, fault) ==
  IF fault.col = j /\ df.dtypes[j] /= "object" THEN fault.class ELSE "none"

\* the columns whose exception leaves the loop
Escaping(df, fault) ==
  {j \in 1..NCols(df) :
     ColRaises(df, j, fault) /= "none" /\ ~Swallowed(ColRaises(df, j, fault))}

\* the frame with the columns `done` narrowed and cast
Narrowed(df, done) ==
  LET nd == [j \in 1..NCols(df) |-> IF j \in done THEN OptimizeCol(df, j) ELSE df.dtypes[j]]
  IN [cols |-> df.cols,
      dtypes |-> nd,
      rows |-> [r \in 1..Len(df.rows) |->
                 Run([j \in 1..NCols(df) |->
                        IF j \in done THEN CastCell(df.rows[r].cells[j], nd[j])
                        ELSE df.rows[r].cells[j]],
                     df.rows[r].n)],
      index |-> df.index]

\* optimize_dtypes when column fault.col fails: [df, raised], the frame as
\* the loop left it and the exception class that left the function
optimize_dtypes_under(df, fault) ==
  LET esc == Escaping(df, fault)
      stop == IF esc = {} THEN NCols(df) + 1 ELSE SetMin(esc)
      done == {j \in 1..NCols(df) : j < stop /\ ColRaises(df, j, fault) = "none"}
  IN [df |-> Narrowed(df, done),
      raised |-> IF esc = {} THEN "none" ELSE ColRaises(df, stop, fault)]

optimize_dtypes(df) == optimize_dtypes_under(df, NoFault).df

-----------------------------------------------------------------------------
(* pd.concat(chunks, ignore_index=True): outer join on the column names.   *)

RECURSIVE UnionCols(_, _)
\* the column names of the chunks in order of first appearance
UnionCols(chunks, acc) ==
  IF chunks = <<>> THEN acc
  ELSE LET cs == Head(chunks).cols
           fresh == [j \in 1..Len(cs) |-> \A a \in 1..Len(acc) : acc[a] /= cs[j]]
       IN UnionCols(Tail(chunks), acc \o SeqFilterIdx(cs, fresh, 1))

\* position of column name c in frame df, 0 when absent
ColIndex(df, c) ==
  IF \E j \in 1..NCols(df) : df.cols[j] = c
  THEN CHOOSE j \in 1..NCols(df) : df.cols[j] = c
  ELSE 0

IntRank(d) == CASE d = "int8" -> 1 [] d = "int16" -> 2 [] d = "int32" -> 3 [] OTHER -> 4

\* the common dtype of the pieces of one column; `gap` when a chunk lacks it
CommonDtype(ds, gap) ==
  IF "object" \in ds THEN "object"
  ELSE IF ds \subseteq IntDtypes
       THEN (IF gap THEN "float64"
             ELSE CHOOSE d \in ds : \A e \in ds : IntRank(e) <= IntRank(d))
  ELSE IF "float64" \in ds \/ "int32" \in ds \/ "int64" \in ds THEN "float64"
  ELSE "float32"

\* the rows of chunk df laid out on the columns `cols`, NaN where it has none
Reindex(df, cols) ==
  [r \in 1..Len(df.rows) |->
    Run([c \in 1..Len(cols) |->
          IF ColIndex(df, cols[c]) = 0 THEN NaN
          ELSE df.rows[r].cells[ColIndex(df, cols[c])]],
        df.rows[r].n)]

RECURSIVE ConcatRows(_, _)
ConcatRows(chunks, cols) ==
  IF chunks = <<>> THEN <<>>
  ELSE Reindex(Head(chunks), cols) \o ConcatRows(Tail(chunks), cols)

\* concat leaves out the frames of shape (0, 0) unless every frame is one
NonEmpties(chunks) ==
  LET kept == SelectSeq(chunks, LAMBDA d : NCols(d) + FrameLen(d) > 0)
  IN IF kept /= <<>> THEN kept ELSE chunks

ConcatFrames(objs) ==
  LET cols == UnionCols(objs, <<>>)
      having(c) == {k \in 1..Len(objs) : ColIndex(objs[k], c) /= 0}
  IN [cols |-> cols,
      dtypes |-> [c \in 1..Len(cols) |->
                   CommonDtype({objs[k].dtypes[ColIndex(objs[k], cols[c])] :
                                  k \in having(cols[c])},
                               having(cols[c]) /= 1..Len(objs))],
      rows |-> ConcatRows(objs, cols),
      index |-> RangeStarts(ConcatRows(objs, cols), 0)]

Concat(chunks) == ConcatFrames(NonEmpties(chunks))

-----------------------------------------------------------------------------
(* File contents and the pandas parsers.                                   *)
(* A content is [fmt, raw]: the real format of the bytes and, for a        *)
(* well-formed table, its raw rows (row 0 is the first line / sheet row).  *)

\* pd.read_csv succeeds: delimited text with at least a header line
CsvParses(content) == content.fmt = "csv" /\ content.raw /= <<>>

\* pd.read_excel(engine='openpyxl') succeeds: an OOXML workbook
ExcelParses(content) == content.fmt = "xlsx"

RECURSIVE TrimTrailingRows(_)
\* the rows up to the last one that holds a value
TrimTrailingRows(rs) ==
  IF rs = <<>> THEN <<>>
  ELSE IF RowAllNa(rs[Len(rs)]) THEN TrimTrailingRows(SubSeq(rs, 1, Len(rs) - 1))
  ELSE rs

\* position of the last value of a row, 0 for an empty row
LastValue(cells) ==
  IF \E j \in 1..Len(cells) : NotNa(cells[j])
  THEN SetMax({j \in 1..Len(cells) : NotNa(cells[j])})
  ELSE 0

\* the rows the openpyxl reader of pd.read_excel hands to the parser: the
\* first file_rows_needed sheet rows, without the empty rows at their end,
\* each as wide as the widest of them (empty cells at a row's end dropped)
get_sheet_data(raw, file_rows_needed) ==
  LET data == TrimTrailingRows(TakeRows(raw, file_rows_needed))
      width == SetMax({LastValue(data[r].cells) : r \in 1..Len(data)})
  IN [r \in 1..Len(data) |-> Run(SubSeq(data[r].cells, 1, width), data[r].n)]

\* pd.read_excel(header=h, nrows=nrows): the header row and nrows rows are
\* read; a sheet without data gives an empty frame
ParseSheet(raw, h, nrows) ==
  LET data == get_sheet_data(raw, h + 1 + nrows)
  IN IF data = <<>> THEN EmptyFrame ELSE ParseTable(data, h, nrows)

\* pd.read_excel(header=None, nrows=nrows): nrows + 1 sheet rows are read
\* and the first nrows of what is left of them are data rows
ParseRaw(raw, nrows) == TakeRows(get_sheet_data(raw, nrows + 1), nrows)

RECURSIVE Digits(_)
Digits(n) ==
  IF n < 0 THEN 1 + Digits(-n) ELSE IF n < 10 THEN 1 ELSE 1 + Digits(n \div 10)

-----------------------------------------------------------------------------
(* Header recovery (read_excel_optimized and upload_file).                 *)

\* mutant: half of the names is enough
MostlyUnnamed_half(df) ==
  2 * Cardinality({j \in 1..NCols(df) : IsUnnamed(df.cols[j])}) >= NCols(df)

\* len(unnamed_cols) > len(df.columns) / 2
MostlyUnnamed(df) ==
  2 * Cardinality({j \in 1..NCols(df) : IsUnnamed(df.cols[j])}) > NCols(df)

\* len(str(v)) of a non-missing cell of df_raw: a number of a column (or of
\* an all-numeric frame) that pandas holds as float prints with ".0", a date
\* prints as "YYYY-MM-DD HH:MM:SS"
CellStrLen(scan, cells, j) ==
  LET dts == [c \in 1..Len(cells) |-> InferDtype(scan, c)]
      asFloat == \/ dts[j] = "float64"
                 \/ /\ \A c \in 1..Len(cells) : dts[c] \in NumericDtypes
                    /\ \E c \in 1..Len(cells) : dts[c] = "float64"
  IN IF cells[j].k = "str" THEN Len(cells[j].s)
     ELSE IF cells[j].k = "date" THEN Len(DateStr(cells[j].i))
     ELSE Digits(cells[j].i) + (IF asFloat THEN 2 ELSE 0)

\* the test applied to one row of df_raw
RowQualifies(scan, cells) ==
  /\ Cardinality({j \in 1..Len(cells) : NotNa(cells[j])}) >= 2
  /\ \E j \in 1..Len(cells) : NotNa(cells[j]) /\ CellStrLen(scan, cells, j) > 2

\* mutant: the loop without its break, so that the last qualifying row wins
FindHeaderRow_last(raw) ==
  LET scan == ParseRaw(raw, HEADER_SCAN_ROWS)
      n == NRows(scan)
      ok == {idx \in 0..(n - 1) : RowQualifies(scan, RowAt(scan, idx))}
  IN IF ok = {} THEN -1 ELSE SetMax(ok)

\* header_row: index of the first qualifying row of df_raw, -1 for None
FindHeaderRow(raw) ==
  LET scan == ParseRaw(raw, HEADER_SCAN_ROWS)
      n == NRows(scan)
      ok == {idx \in 0..(n - 1) : RowQualifies(scan, RowAt(scan, idx))}
  IN IF ok = {} THEN -1 ELSE SetMin(ok)

\* what the repair did: whether df_raw was read and scanned, and header_row
NoScan == [scanned |-> FALSE, header_row |-> -1]

\* mutant: the repair is tried only for frames of two or more columns
HeaderScan_guarded(raw, nrows) ==
  LET df == ParseSheet(raw, 0, nrows)
  IN IF NCols(df) >= 2 /\ MostlyUnnamed(df)
     THEN LET header_row == FindHeaderRow(raw)
          IN [df |-> IF header_row > 0 THEN ParseSheet(raw, header_row, nrows) ELSE df,
              scan |-> [scanned |-> TRUE, header_row |-> header_row]]
     ELSE [df |-> df, scan |-> NoScan]

\* the parse of a workbook followed by the header repair, before cleaning:
\* the frame and what the repair did
HeaderScan(raw, nrows) ==
  LET df == ParseSheet(raw, 0, nrows)
  IN IF MostlyUnnamed(df)
     THEN LET header_row == FindHeaderRow(raw)
          IN [df |-> IF header_row > 0 THEN ParseSheet(raw, header_row, nrows) ELSE df,
              scan |-> [scanned |-> TRUE, header_row |-> header_row]]
     ELSE [df |-> df, scan |-> NoScan]

ReadExcelWithRecovery(raw, nrows) == HeaderScan(raw, nrows).df

-----------------------------------------------------------------------------
(* Streamlit readers.  A reader result is [df, raised, errs]: the frame    *)
(* returned, whether an exception left the reader, and the st.error        *)
(* messages it showed.                                                     *)

Result(df, raised, errs) == [df |-> df, raised |-> raised, errs |-> errs]

RECURSIVE ChunkLoop(_, _, _, _, _)
\* the for loop over pd.read_csv(chunksize=CHUNK_SIZE): chunk_num k, the
\* chunks appended so far and total_rows; a file without data rows still
\* yields one chunk, of no rows
ChunkLoop(hdr, data, k, chunks, total_rows) ==
  LET rows == TakeRows(DropRows(data, k * CHUNK_SIZE), CHUNK_SIZE)
  IN IF rows = <<>> /\ k > 0 THEN chunks
     ELSE LET parsed == ParseCsv(hdr, rows, k * CHUNK_SIZE)
              chunk == optimize_dtypes(Clean(parsed))
              total == total_rows + FrameLen(chunk)
          IN IF total >= MAX_ROWS
             THEN Append(chunks, chunk)
             ELSE ChunkLoop(hdr, data, k + 1, Append(chunks, chunk), total)

read_csv_chunked(content, preview_only) ==
  IF preview_only
  THEN (IF CsvParses(content)
        THEN Result(ParseCsv(RowAt(content.raw, 0),
                             TakeRows(DropRows(content.raw, 1), PREVIEW_ROWS), 0),
                    FALSE, <<>>)
        ELSE Result(EmptyFrame, TRUE, <<>>))
  ELSE IF CsvParses(content)
       THEN LET chunks == ChunkLoop(RowAt(content.raw, 0), DropRows(content.raw, 1),
                                    0, <<>>, 0)
            IN Result(IF chunks /= <<>> THEN Concat(chunks) ELSE EmptyFrame, FALSE, <<>>)
       ELSE Result(EmptyFrame, FALSE, <<"ErrorReadingCSV">>)

read_excel_optimized(content, preview_only) ==
  IF ExcelParses(content)
  THEN LET df == Clean(ReadExcelWithRecovery(content.raw,
                         IF preview_only THEN PREVIEW_ROWS ELSE MAX_ROWS))
       IN Result(IF preview_only THEN df ELSE optimize_dtypes(df), FALSE, <<>>)
  ELSE Result(EmptyFrame, FALSE, <<"ErrorReadingExcel">>)

\* what the header repair did during the reader call of process_uploaded_file
StScan(file, preview_only) ==
  IF IsCsvName(file.name) \/ ~ExcelParses(file.content) THEN NoScan
  ELSE HeaderScan(file.content.raw, IF preview_only THEN PREVIEW_ROWS ELSE MAX_ROWS).scan

-----------------------------------------------------------------------------
(* Upload history (recent_uploads).                                        *)

None == <<>>
Some(x) == <<x>>

\* mutant: the slice [:10] forgotten
HistoryInsert_uncapped(hist, rec) ==
  <<rec>> \o SelectSeq(hist, LAMBDA u : u.filename /= rec.filename)

\* mutant: append(upload_info) instead of insert(0, upload_info)
HistoryInsert_append(hist, rec) ==
  LET grown == SelectSeq(hist, LAMBDA u : u.filename /= rec.filename) \o <<rec>>
  IN SubSeq(grown, 1, Min2(Len(grown), HISTORY_CAP))

\* mutant: the slice taken one short, [:9]
HistoryInsert_short(hist, rec) ==
  LET grown == <<rec>> \o SelectSeq(hist, LAMBDA u : u.filename /= rec.filename)
  IN SubSeq(grown, 1, Min2(Len(grown), HISTORY_CAP - 1))

\* mutant: the records of the same filename are not dropped first
HistoryInsert_keepold(hist, rec) ==
  LET grown == <<rec>> \o hist
  IN SubSeq(grown, 1, Min2(Len(grown), HISTORY_CAP))

\* the three statements that update recent_uploads: drop the records of the
\* same filename, insert the new record at position 0, keep the first ten
HistoryInsert(hist, rec) ==
  LET others == SelectSeq(hist, LAMBDA u : u.filename /= rec.filename)
      grown == <<rec>> \o others
  IN SubSeq(grown, 1, Min2(Len(grown), HISTORY_CAP))

-----------------------------------------------------------------------------
(* Streamlit: session state and process_uploaded_file.                     *)
(* An uploaded file is [name, size, content].                              *)

StInitial ==
  [df |-> None, filename |-> None, file_size |-> 0, recent_uploads |-> <<>>,
   rows_limited |-> FALSE, is_preview |-> FALSE]

\* mutant: the size test written with >=
TooLarge_ge(file_size) == file_size >= MAX_FILE_SIZE_MB * MB

\* file_size_mb > MAX_FILE_SIZE_MB, with file_size_mb = file_size / (1024 * 1024)
TooLarge(file_size) == file_size > MAX_FILE_SIZE_MB * MB

\* rows_limited = len(df) >= MAX_ROWS
RowsLimited(df) == FrameLen(df) >= MAX_ROWS

StUploadInfo(file, df, now) ==
  [filename |-> file.name, upload_time |-> now, file_size |-> file.size,
   row_count |-> FrameLen(df), column_count |-> NCols(df),
   is_excel |-> IsExcelName(file.name)]

\* which reader the test name.endswith('.csv') hands the file to
ReaderFor(filename) == IF IsCsvName(filename) THEN "csv" ELSE "excel"

\* the reader chosen by uploaded_file.name.endswith('.csv')
StRead(file, preview_only) ==
  IF IsCsvName(file.name)
  THEN read_csv_chunked(file.content, preview_only)
  ELSE read_excel_optimized(file.content, preview_only)

\* the assignments made once the frame is known to hold data
StStore(s, file, df, preview_only, now) ==
  [df |-> Some(df), filename |-> Some(file.name), file_size |-> file.size,
   rows_limited |-> RowsLimited(df), is_preview |-> preview_only,
   recent_uploads |-> HistoryInsert(s.recent_uploads, StUploadInfo(file, df, now))]

\* mutant: an upload that returns None also resets the session state
Outcome_clears(s, ret, errs, parsed) ==
  [sess |-> IF ret = None THEN StInitial ELSE s, ret |-> ret, errs |-> errs,
   parsed |-> parsed]

\* an outcome: the session afterwards, the value returned (None or the
\* frame), the messages shown, and whether a reader was called
Outcome(s, ret, errs, parsed) ==
  [sess |-> s, ret |-> ret, errs |-> errs, parsed |-> parsed]

process_uploaded_file(s, file, preview_only, now) ==
  IF ~allowed_file(file.name)
  THEN Outcome(s, None, <<"InvalidFileType">>, FALSE)
  ELSE IF TooLarge(file.size)
  THEN Outcome(s, None, <<"FileTooLarge">>, FALSE)
  ELSE LET r == StRead(file, preview_only)
       IN IF r.raised
          THEN Outcome(s, None, <<"ErrorProcessing">>, TRUE)
          ELSE IF IsEmptyFrame(r.df)
          THEN Outcome(s, None, r.errs \o <<"EmptyFile">>, TRUE)
          ELSE Outcome(StStore(s, file, r.df, preview_only, now), Some(r.df), r.errs, TRUE)

-----------------------------------------------------------------------------
(* Flask: the session cookie, the pickles on disk and the handlers.        *)
(* A request is [has_file, file, length]: length is its Content-Length.    *)

\* the browser sessions (cookie jars) that talk to the server
Clients == {1, 2}

FlInitial == [session_id |-> None, filename |-> None, recent_uploads |-> None]

\* mutant: one id handed to every session
NewSessionId_shared(c) == 1

\* uuid.uuid4() drawn for a client's session: distinct sessions, distinct ids
NewSessionId(c) == c

\* get_session_id: the cookie afterwards
WithSessionId(cookie, c) ==
  IF cookie.session_id = None
  THEN [cookie EXCEPT !.session_id = Some(NewSessionId(c))]
  ELSE cookie

\* load_dataframe
load_dataframe(diskv, sid) == diskv[sid]

\* app.config['MAX_CONTENT_LENGTH']: the framework refuses a longer request
\* when the handler first touches request.files
RequestTooLarge(length) == length > MAX_CONTENT_LENGTH_MB * MB

\* len(df.select_dtypes(include=['number']).columns)
NumericCols(df) ==
  Cardinality({j \in 1..NCols(df) : df.dtypes[j] \in NumericDtypes})

FlUploadInfo(filename, file_size, df, now) ==
  [filename |-> filename, upload_time |-> now, upload_timestamp |-> now,
   file_size |-> file_size, row_count |-> FrameLen(df),
   column_count |-> NCols(df), numeric_columns |-> NumericCols(df),
   is_excel |-> IsExcelName(filename), annotated |-> FALSE]

\* the read of the temporary file: pd.read_csv for a name ending in '.csv',
\* else the nested pd.read_excel attempts, which all fail on the same bytes
FlRead(filename, content) ==
  IF IsCsvName(filename)
  THEN (IF CsvParses(content)
        THEN Result(ParseCsv(RowAt(content.raw, 0), DropRows(content.raw, 1), 0),
                    FALSE, <<>>)
        ELSE Result(EmptyFrame, TRUE, <<>>))
  ELSE IF ExcelParses(content)
       THEN Result(ReadExcelWithRecovery(content.raw, NRows(content.raw)), FALSE, <<>>)
       ELSE Result(EmptyFrame, TRUE, <<>>)

\* what the header repair did during the read of upload_file
FlScan(filename, content) ==
  IF IsCsvName(filename) \/ ~ExcelParses(content) THEN NoScan
  ELSE HeaderScan(content.raw, NRows(content.raw)).scan

\* a response: cookie and disk afterwards, status code, message, whether a
\* parser ran, whether a temporary file was saved / is still there on return
Response(cookie, diskv, code, msg, parsed, saved, left) ==
  [sess |-> cookie, disk |-> diskv, code |-> code, msg |-> msg,
   parsed |-> parsed, temp_saved |-> saved, temp_left |-> left]

\* the success path of upload_file, from "Store DataFrame to disk" on
FlStore(cookie, diskv, c, filename, file_size, df, now) ==
  LET withId == WithSessionId(cookie, c)
      sid == withId.session_id[1]
      hist == IF withId.recent_uploads = None THEN <<>> ELSE withId.recent_uploads[1]
  IN Response([withId EXCEPT
                 !.filename = Some(filename),
                 !.recent_uploads =
                    Some(HistoryInsert(hist, FlUploadInfo(filename, file_size, df, now)))],
              [diskv EXCEPT ![sid] = Some(df)],
              200, "Success", TRUE, TRUE, FALSE)

upload_file(cookie, diskv, c, req, now) ==
  IF RequestTooLarge(req.length)
  THEN Response(cookie, diskv, 413, "RequestEntityTooLarge", FALSE, FALSE, FALSE)
  ELSE IF ~req.has_file
  THEN Response(cookie, diskv, 400, "NoFileProvided", FALSE, FALSE, FALSE)
  ELSE IF req.file.name = <<>>
  THEN Response(cookie, diskv, 400, "NoFileSelected", FALSE, FALSE, FALSE)
  ELSE IF ~allowed_file(req.file.name)
  THEN Response(cookie, diskv, 400, "InvalidFileType", FALSE, FALSE, FALSE)
  ELSE LET filename == secure_filename(req.file.name)
           r == FlRead(filename, req.file.content)
           df == Clean(r.df)
       IN IF r.raised
          THEN Response(cookie, diskv, 500, "ErrorProcessing", TRUE, TRUE, FALSE)
          ELSE IF IsEmptyFrame(df)
          THEN Response(cookie, diskv, 400, "EmptyFile", TRUE, TRUE, TRUE)
          ELSE FlStore(cookie, diskv, c, filename, req.file.size, df, now)

\* the loop of index() that adds time_ago and file_size_mb to each record
Annotate(hist) == [i \in 1..Len(hist) |-> [hist[i] EXCEPT !.annotated = TRUE]]

\* index(): the cookie is written back only when the session was modified,
\* which here is the session.pop('filename') of the data-not-found branch
index(cookie, diskv) ==
  LET tracked == cookie.session_id /= None /\ cookie.filename /= None
      df == IF tracked THEN load_dataframe(diskv, cookie.session_id[1]) ELSE None
      modified == tracked /\ df = None
      hist == IF cookie.recent_uploads = None THEN <<>> ELSE cookie.recent_uploads[1]
      inreq == [cookie EXCEPT
                  !.filename = IF modified THEN None ELSE @,
                  !.recent_uploads = IF @ = None THEN None ELSE Some(Annotate(hist))]
  IN [sess |-> IF modified THEN inreq ELSE cookie,
      has_data |-> tracked /\ df /= None,
      msg |-> IF modified THEN "DataFileNotFound"
              ELSE IF tracked THEN "HasData" ELSE "NoData"]

\* mutant: reset forgets the filename but leaves the pickle on disk
reset_keeps_pickle(cookie, diskv) ==
  [sess |-> [cookie EXCEPT !.filename = None], disk |-> diskv]

\* reset(): remove the pickle of the session, forget the filename
reset(cookie, diskv) ==
  [sess |-> [cookie EXCEPT !.filename = None],
   disk |-> IF cookie.session_id = None THEN diskv
            ELSE [diskv EXCEPT ![cookie.session_id[1]] = None]]

-----------------------------------------------------------------------------
(* Flask: the chart handlers get_bar_chart, get_line_chart, get_pie_chart. *)
(* A chart request is [kind, body, a, b]: body tells whether the request   *)
(* body is a JSON object; a and b are the column names it selects (x_col   *)
(* and y_col, line_col, or cat_col and val_col).                           *)

ChartKinds == {"bar", "line", "pie"}

HasCol(df, c) == ColIndex(df, c) /= 0

\* (the status codes of the figure construction, ChartCodes, follow the
\* definitions of the group-by below)

-----------------------------------------------------------------------------
(* What the charts show.  A figure is [kind, x, y]: the labels along the x  *)
(* axis (the slice names of a pie) and the values plotted, two sequences.   *)
(* A label or value is a cell of the dataset or a generated label           *)
(* [k |-> "pos" | "month" | "quarter" | "index", i |-> number].             *)

RECURSIVE FlatRows(_)
\* the rows one by one
FlatRows(rs) ==
  IF rs = <<>> THEN <<>>
  ELSE [q \in 1..Head(rs).n |-> Head(rs).cells] \o FlatRows(Tail(rs))

\* df[col] as a sequence of cells, j the position of the column
Column(df, j) == LET rows == FlatRows(df.rows) IN [r \in 1..Len(rows) |-> rows[r][j]]

\* the positions of the columns whose dtype is in ds, in column order
ColsOfDtype(df, ds) ==
  SeqFilterIdx([j \in 1..NCols(df) |-> j], [j \in 1..NCols(df) |-> df.dtypes[j] \in ds], 1)

\* df.select_dtypes(include=['number']).columns.tolist() and the like
numeric_cols(df) == ColsOfDtype(df, NumericDtypes)
categorical_cols(df) == ColsOfDtype(df, {"object"})
date_cols(df) == ColsOfDtype(df, {"datetime64"})

Label(k, i) == [k |-> k, i |-> i, s |-> ""]

\* list(range(1, n + 1)), months[:n], quarters[:n]
Positions(n) == [i \in 1..n |-> Label("pos", i)]
Months(n) == [i \in 1..Min2(n, 12) |-> Label("month", i)]
Quarters(n) == [i \in 1..Min2(n, 4) |-> Label("quarter", i)]

RECURSIVE IndexLabels(_, _)
\* the index labels of the rows one by one
IndexLabels(rs, starts) ==
  IF rs = <<>> THEN <<>>
  ELSE [q \in 1..Head(rs).n |-> Head(starts) + q - 1]
         \o IndexLabels(Tail(rs), Tail(starts))

\* df.index, the x values of a plotly express figure that is given no x
RowIndex(df) ==
  LET labels == IndexLabels(df.rows, df.index)
  IN [i \in 1..Len(labels) |-> Label("index", labels[i])]

\* s[:k]
Take(s, k) == SubSeq(s, 1, Min2(Len(s), k))

\* a < b for two group keys of one column: numbers (or dates) by value, text
\* by the code points of its characters, a number before a text
KeyLess(a, b) ==
  IF a.k = "str" /\ b.k = "str" THEN StrLess(a.s, b.s)
  ELSE IF a.k = "str" THEN FALSE
  ELSE IF b.k = "str" THEN TRUE
  ELSE a.i < b.i

RECURSIVE SortKeys(_)
\* groupby sorts the group keys
SortKeys(S) ==
  IF S = {} THEN <<>>
  ELSE LET m == CHOOSE x \in S : \A y \in S : x = y \/ KeyLess(x, y)
       IN <<m>> \o SortKeys(S \ {m})

\* the group keys of column jc: its values that are not missing
GroupKeys(df, jc) == {c \in {df.rows[r].cells[jc] : r \in 1..Len(df.rows)} : NotNa(c)}

\* the row blocks of the group `key` in which column jv holds a value
GroupBlocks(df, jc, jv, key) ==
  SelectSeq(df.rows, LAMBDA run : run.cells[jc] = key /\ NotNa(run.cells[jv]))

RECURSIVE RepeatStr(_, _)
\* t + t + ... + t, n times
RepeatStr(t, n) == IF n = 0 THEN "" ELSE t \o RepeatStr(t, n - 1)

RECURSIVE ConcatStr(_)
\* the texts of the blocks added up in row order
ConcatStr(blocks) ==
  IF blocks = <<>> THEN ""
  ELSE RepeatStr(Head(blocks).cells.s, Head(blocks).n) \o ConcatStr(Tail(blocks))

\* the sum of column jv over the rows of the group `key`, missing values
\* skipped: the only value of a group is taken as it is (a date too),
\* numbers are added, texts are joined in row order, and a group without a
\* value sums to 0
GroupSum(df, jc, jv, key) ==
  LET blocks == GroupBlocks(df, jc, jv, key)
      vals == [r \in 1..Len(blocks) |-> Run(blocks[r].cells[jv], blocks[r].n)]
  IN IF NRows(vals) = 1 THEN vals[1].cells
     ELSE IF \E r \in 1..Len(vals) : vals[r].cells.k = "str"
     THEN StrCell(ConcatStr(vals))
     ELSE IntCell(SumSeq([r \in 1..Len(vals) |-> vals[r].cells.i * vals[r].n]))

\* groupby(cat_col)[val_col].sum().reset_index() raises: the keys hold
\* numbers and dates, which cannot be sorted together; a datetime column
\* cannot be summed; in a column of objects a date cannot be added to
\* another value, nor a text to a number; and reset_index cannot insert a
\* column named as the value column
GroupByRaises(df, jc, jv) ==
  \/ jc = jv
  \/ {"int", "date"} \subseteq {c.k : c \in GroupKeys(df, jc)}
  \/ df.dtypes[jv] = "datetime64"
  \/ \E key \in GroupKeys(df, jc) :
       LET blocks == GroupBlocks(df, jc, jv, key)
           kinds == {blocks[r].cells[jv].k : r \in 1..Len(blocks)}
       IN NRows(blocks) >= 2 /\ ("date" \in kinds \/ {"int", "str"} \subseteq kinds)

\* df.groupby(cat_col)[val_col].sum().reset_index(): one row per key that is
\* not missing, keys sorted; [x, y] holds its two columns
GroupBySum(df, jc, jv) ==
  LET keys == SortKeys(GroupKeys(df, jc))
  IN [x |-> keys,
      y |-> [i \in 1..Len(keys) |-> GroupSum(df, jc, jv, keys[i])]]

\* the status codes the figure construction can end with: 200 when plotly
\* (and, for the pie, groupby(cat_col)[val_col].sum().reset_index()) accepts
\* the selection, 500 when it raises; where that depends on the version of
\* the libraries (the sum and the pie of a text column) both are admitted
ChartCodes(kind, df, a, b) ==
  CASE kind = "bar" -> IF HasCol(df, a) /\ HasCol(df, b) THEN {200} ELSE {500}
    [] kind = "line" -> IF HasCol(df, a) THEN {200} ELSE {500}
    [] OTHER ->
         IF ~(HasCol(df, a) /\ HasCol(df, b)) THEN {500}
         ELSE IF GroupByRaises(df, ColIndex(df, a), ColIndex(df, b)) THEN {500}
         ELSE IF df.dtypes[ColIndex(df, b)] \in NumericDtypes THEN {200}
         ELSE {200, 500}

Figure(kind, x, y) == [kind |-> kind, x |-> x, y |-> y]
NoFigure == Figure("none", <<>>, <<>>)

\* what one chart slot of the page shows: a figure, or a notice in its place
Shown(fig) == [msg |-> "Chart", fig |-> fig]
Notice(msg) == [msg |-> msg, fig |-> NoFigure]

\* the cells of s at the positions in `at`
Pick(s, at) == SeqFilterIdx(s, [r \in 1..Len(s) |-> r \in at], 1)

\* Streamlit, "Monthly Revenue Trend": the first numeric column without its
\* missing values, against the first datetime column when it has a value at
\* each of those rows, else month names for up to 12 values, else 1..n
st_line(df) ==
  LET nc == numeric_cols(df)
  IN IF Len(nc) = 0 THEN Notice("NoNumericDataForLine")
     ELSE LET col == Column(df, nc[1])
              valid_indices == {r \in 1..Len(col) : NotNa(col[r])}
              values == Pick(col, valid_indices)
              dc == date_cols(df)
              dates == IF Len(dc) = 0 THEN <<>> ELSE Column(df, dc[1])
              date_data == Pick(dates, {r \in valid_indices : NotNa(dates[r])})
              x_labels == IF Len(dc) > 0
                          THEN (IF Len(date_data) = Len(values)
                                THEN date_data ELSE Positions(Len(values)))
                          ELSE IF Len(values) <= 12 THEN Months(Len(values))
                          ELSE Positions(Len(values))
          IN Shown(Figure("line", x_labels, values))

\* mutant: the slices not cut to five
st_pie_all(df) ==
  LET cc == categorical_cols(df)
      nc == numeric_cols(df)
  IN IF Len(cc) > 0 /\ Len(nc) > 0
     THEN LET pie_data == GroupBySum(df, cc[1], nc[1])
          IN Shown(Figure("pie", pie_data.x, pie_data.y))
     ELSE Notice("InsufficientDataForPie")

\* the slot in which an exception ended the script run, and a slot the run
\* did not get to
Raised == Notice("Exception")
NotDrawn == Notice("none")

\* Streamlit, "Sales by Category": the first numeric column summed by the
\* first text column, the first five groups; nothing catches an exception
\* of the group-by
st_pie(df) ==
  LET cc == categorical_cols(df)
      nc == numeric_cols(df)
  IN IF Len(cc) > 0 /\ Len(nc) > 0
     THEN (IF GroupByRaises(df, cc[1], nc[1]) THEN Raised
           ELSE LET pie_data == GroupBySum(df, cc[1], nc[1])
                IN Shown(Figure("pie", Take(pie_data.x, 5), Take(pie_data.y, 5))))
     ELSE Notice("InsufficientDataForPie")

\* (values + [0] * (k - len(df)))[:k], or head(k) when there are k rows
HeadPadded(col, k) ==
  IF Len(col) >= k THEN Take(col, k)
  ELSE col \o [i \in 1..(k - Len(col)) |-> IntCell(0)]

\* Streamlit, "Quarterly Performance": the first four values of the first
\* numeric column over Q1..Q4
st_bar(df) ==
  LET nc == numeric_cols(df)
  IN IF Len(nc) > 0
     THEN LET values == HeadPadded(Column(df, nc[1]), 4)
          IN Shown(Figure("bar", Quarters(Len(values)), values))
     ELSE Notice("NoNumericDataForBar")

\* Streamlit, "Regional Distribution": the first five values of the second
\* numeric column over the first text column (five fixed names without one)
st_bar2(df) ==
  LET nc == numeric_cols(df)
      cc == categorical_cols(df)
  IN IF Len(nc) > 1
     THEN LET regions == IF Len(cc) > 0 THEN Take(Column(df, cc[1]), 5)
                         ELSE [i \in 1..5 |-> Label("region", i)]
              values == HeadPadded(Column(df, nc[2]), 5)
          IN Shown(Figure("bar", Take(regions, Len(values)), values))
     ELSE Notice("NotEnoughNumericColumns")

\* the four chart slots of the Streamlit page, drawn in this order: an
\* exception in the pie ends the run before the two bar charts
st_charts(df) ==
  LET pie == st_pie(df)
  IN [line |-> st_line(df), pie |-> pie,
      bar |-> IF pie = Raised THEN NotDrawn ELSE st_bar(df),
      bar2 |-> IF pie = Raised THEN NotDrawn ELSE st_bar2(df)]

\* Flask: the figure a chart handler builds when the libraries accept the
\* selection; a and b are the names of existing columns
fl_figure(kind, df, a, b) ==
  CASE kind = "bar" ->
         Figure("bar", Column(df, ColIndex(df, a)), Column(df, ColIndex(df, b)))
    [] kind = "line" ->
         Figure("line", RowIndex(df), Column(df, ColIndex(df, a)))
    [] OTHER ->
         LET pie_data == GroupBySum(df, ColIndex(df, a), ColIndex(df, b))
         IN Figure("pie", pie_data.x, pie_data.y)

\* a response: cookie afterwards, status code, message, and the figure sent
ChartResponse(cookie, code, msg, fig) ==
  [sess |-> cookie, code |-> code, msg |-> msg, fig |-> fig]

\* the response that ends the figure construction with status `code`
Built(cookie, code, req, df) ==
  IF code = 200 THEN ChartResponse(cookie, 200, "Chart", fl_figure(req.kind, df, req.a, req.b))
  ELSE ChartResponse(cookie, 500, "ChartError", NoFigure)

\* mutant: the 'session_id' guard forgotten, so that get_session_id() makes
\* up an id for a session that has none
chart_noguard(cookie, diskv, c, req) ==
  LET withId == WithSessionId(cookie, c)
  IN IF req.body /= "object"
     THEN {ChartResponse(cookie, 500, "ChartError", NoFigure)}
     ELSE IF load_dataframe(diskv, withId.session_id[1]) = None
     THEN {ChartResponse(withId, 400, "DataNotFound", NoFigure)}
     ELSE {Built(withId, code, req, load_dataframe(diskv, withId.session_id[1])[1]) :
             code \in ChartCodes(req.kind, load_dataframe(diskv, withId.session_id[1])[1],
                                 req.a, req.b)}

\* the three handlers share their shape: the responses a request can get
chart(cookie, diskv, c, req) ==
  IF cookie.session_id = None
  THEN {ChartResponse(cookie, 400, "NoDataAvailable", NoFigure)}
  ELSE IF req.body /= "object"
  THEN {ChartResponse(cookie, 500, "ChartError", NoFigure)}
  ELSE LET withId == WithSessionId(cookie, c)
           df == load_dataframe(diskv, withId.session_id[1])
       IN IF df = None
          THEN {ChartResponse(withId, 400, "DataNotFound", NoFigure)}
          ELSE {Built(withId, code, req, df[1]) :
                  code \in ChartCodes(req.kind, df[1], req.a, req.b)}

-----------------------------------------------------------------------------
(* Bounds and the input files offered by the environment.                  *)

MaxSeed == 10        \* uploads already made when the explored session starts
MaxRequests == 2     \* requests explored from there
MaxRuns == 2         \* row blocks of a generated table
MaxShared == 3       \* requests explored when two sessions share the server
MaxSheetRows == 3    \* rows of a generated sheet
MaxCats == 6         \* distinct categories of a charted workbook
BulkRows == 12       \* rows of the long block of a charted workbook
SmallSize == 2048    \* byte size of an ordinary file
Overhead == 200      \* multipart bytes of a request besides the file

Content(fmt, raw) == [fmt |-> fmt, raw |-> raw]
File(name, size, content) == [name |-> name, size |-> size, content |-> content]
Name(stem, ext) == stem \o <<DOT>> \o ext

Hdr2 == <<StrCell("Region"), StrCell("Sales")>>
Blank2 == <<NaN, NaN>>
North == <<StrCell("North"), IntCell(10)>>
South == <<StrCell("South"), IntCell(5)>>
LeftOnly == <<IntCell(7), NaN>>

GoodRaw == <<Run(Hdr2, 1), Run(North, 2), Run(South, 1)>>
OtherRaw == <<Run(Hdr2, 1), Run(South, 1)>>
BlankRaw == <<Run(Hdr2, 1), Run(Blank2, 3)>>
TitleRaw == <<Run(Blank2, 1), Run(Hdr2, 1), Run(North, 2)>>

Garbage == Content("garbage", <<>>)

LimitSize == MAX_FILE_SIZE_MB * MB

\* the files of the "names" pool: filenames, sizes and a few small tables
NamedFiles ==
  { File(Name(<<"a">>, ExtCsv), SmallSize, Content("csv", GoodRaw)),
    File(Name(<<"a">>, ExtCsv), LimitSize, Content("csv", OtherRaw)),
    File(Name(<<"a">>, ExtCsv), LimitSize - Overhead, Content("csv", OtherRaw)),
    File(Name(<<"a">>, ExtCsv), LimitSize + 1, Content("csv", GoodRaw)),
    File(Name(<<"b">>, ExtXlsx), SmallSize, Content("xlsx", TitleRaw)),
    File(Name(<<"b">>, ExtXlsx), SmallSize, Garbage),
    File(Name(<<"c">>, ExtXls), SmallSize, Content("xls", <<>>)),
    File(Name(<<"d">>, <<"C", "S", "V">>), SmallSize, Content("csv", GoodRaw)),
    File(Name(<<"h">>, <<"X", "L", "S", "X">>), SmallSize, Content("xlsx", GoodRaw)),
    File(Name(<<"e">>, <<"t", "x", "t">>), SmallSize, Content("csv", GoodRaw)),
    File(Name(<<"e">>, <<"t", "x", "t">>), LimitSize + 1, Content("csv", GoodRaw)),
    File(Name(<<"f">>, ExtCsv), SmallSize, Content("csv", BlankRaw)),
    File(Name(<<"g">>, ExtCsv), SmallSize, Garbage),
    File(ExtCsv, SmallSize, Content("csv", GoodRaw)),
    File(Name(<<>>, ExtCsv), SmallSize, Content("csv", GoodRaw)),
    File(Name(<<"0">>, ExtCsv), SmallSize, Content("csv", OtherRaw)),
    File(Name(<<"a", " ", "b">>, ExtCsv), SmallSize, Content("csv", OtherRaw)),
    File(Name(<<"a", "_", "b">>, ExtCsv), SmallSize, Content("csv", GoodRaw)),
    File(Name(<<"É", "\t", "½">>, ExtCsv), SmallSize, Content("csv", OtherRaw)) }

\* the tables of the "tables" pool: a header row, then up to MaxRuns blocks
\* of rows; a block repeats one row 1, CHUNK_SIZE or MAX_ROWS + CHUNK_SIZE times
Patterns == {Blank2, LeftOnly, North}
Counts == {1, CHUNK_SIZE, MAX_ROWS + CHUNK_SIZE}
Blocks == {Run(p, n) : p \in Patterns, n \in Counts}

RECURSIVE BlockSeqs(_)
BlockSeqs(k) ==
  IF k = 0 THEN {<<>>}
  ELSE LET shorter == BlockSeqs(k - 1)
       IN shorter \cup {Append(q, b) : q \in {x \in shorter : Len(x) = k - 1}, b \in Blocks}

\* a table read in three chunks: Sales is missing from the first (dropped as
\* all empty), whole numbers in the second, numbers and an empty cell in the
\* third
ThreeChunkRaw ==
  <<Run(Hdr2, 1), Run(LeftOnly, 1), Run(Blank2, CHUNK_SIZE - 1), Run(North, CHUNK_SIZE),
    Run(North, 1), Run(LeftOnly, 1)>>

\* a table longer than the lines pd.read_csv converts at a time: Region
\* holds numbers in the first BufferLines(2) lines and a text after them
TwoBufferRaw == <<Run(Hdr2, 1), Run(LeftOnly, BufferLines(2)), Run(North, 1)>>

GeneratedRaws ==
  {<<Run(h, 1)>> \o q : h \in {Hdr2, Blank2}, q \in BlockSeqs(MaxRuns)}
    \cup {ThreeChunkRaw, TwoBufferRaw}

TableFiles ==
  {File(Name(<<"t">>, ExtCsv), SmallSize, Content("csv", raw)) : raw \in GeneratedRaws}
  \cup {File(Name(<<"t">>, ExtXlsx), SmallSize, Content("xlsx", raw)) : raw \in GeneratedRaws}
  \cup {File(Name(<<"t">>, ExtXls), SmallSize, Content("xls", <<>>))}

\* the files of the "sessions" pool: two tables and an all-blank one
SessionFiles ==
  { File(Name(<<"a">>, ExtCsv), SmallSize, Content("csv", GoodRaw)),
    File(Name(<<"b">>, ExtXlsx), SmallSize, Content("xlsx", TitleRaw)),
    File(Name(<<"f">>, ExtCsv), SmallSize, Content("csv", BlankRaw)) }

\* the sheets of the "sheets" pool: up to MaxSheetRows rows of one, two or
\* five cells, and two sheets whose header row comes after 9 and 10 blank rows
Cells1 == {<<NaN>>, <<StrCell("Region")>>, <<IntCell(10)>>}
Short2 == <<IntCell(1), IntCell(2)>>
Dated2 == <<DateCell(1), StrCell("ab")>>
\* header rows: texts that read like placeholders, one text twice, and a
\* number beside the date of the same number
Literal2 == <<StrCell("Unnamed: 0"), StrCell("Unnamed: 1")>>
Twice2 == <<StrCell("Region"), StrCell("Region")>>
Mixed2 == <<IntCell(5), DateCell(5)>>
Cells2 == {Blank2, Hdr2, North, LeftOnly, Short2, Dated2, Literal2, Twice2, Mixed2}
Blank5 == <<NaN, NaN, NaN, NaN, NaN>>
HdrPart5 == <<StrCell("Region"), StrCell("Sales"), NaN, NaN, NaN>>
Data5 == <<StrCell("North"), IntCell(10), IntCell(1), NaN, IntCell(3)>>
Cells5 == {Blank5, HdrPart5, Data5}

RECURSIVE RowSeqs(_, _)
RowSeqs(P, k) ==
  IF k = 0 THEN {<<>>}
  ELSE LET shorter == RowSeqs(P, k - 1)
       IN shorter \cup {Append(q, Run(p, 1)) : q \in {x \in shorter : Len(x) = k - 1}, p \in P}

SheetRaws ==
  RowSeqs(Cells1, MaxSheetRows) \cup RowSeqs(Cells2, MaxSheetRows)
    \cup RowSeqs(Cells5, MaxSheetRows)
  \cup {<<Run(Blank2, HEADER_SCAN_ROWS - 1), Run(Hdr2, 1), Run(North, 1)>>,
        <<Run(Blank2, HEADER_SCAN_ROWS), Run(Hdr2, 1), Run(North, 1)>>}

SheetFiles ==
  {File(Name(<<"s">>, ExtXlsx), SmallSize, Content("xlsx", raw)) : raw \in SheetRaws}

\* the workbooks that are charted: columns Region, Sales, Qty, Date (or some
\* of them), one row per category, and optionally a second row of the first
\* category, rows that lack the category, the value or the date, and a long
\* block of equal rows
\* (a name in lower case sorts after the capitalised ones)
CategoryNames == <<"North", "South", "East", "West", "central", "Alpha", "Zeta">>
SalesValues == <<10, 5, 7, 120, 300, 1, 2>>
ChartHeader == <<StrCell("Region"), StrCell("Sales"), StrCell("Qty"), StrCell("Date")>>
CategoryRow(i) ==
  <<StrCell(CategoryNames[i]), IntCell(SalesValues[i]), IntCell(i), DateCell(i)>>
DupRow == <<StrCell("North"), IntCell(20), IntCell(9), DateCell(20)>>
GapRows ==
  <<<<NaN, IntCell(3), IntCell(1), DateCell(21)>>,
    <<StrCell("South"), NaN, IntCell(2), DateCell(22)>>,
    <<StrCell("North"), IntCell(4), IntCell(3), NaN>>,
    <<StrCell("South"), NaN, IntCell(4), NaN>>>>
BulkRow == <<StrCell("North"), IntCell(1), IntCell(1), DateCell(30)>>
Layouts == {<<1, 2, 3, 4>>, <<1, 2, 4>>, <<1, 2>>, <<2>>, <<1>>, <<2, 3>>, <<1, 4>>}

Project(cells, layout) == [j \in 1..Len(layout) |-> cells[layout[j]]]

ChartRaw(layout, ncat, dup, gaps, bulk) ==
  LET one(cells) == <<Run(Project(cells, layout), 1)>>
      cats(from) == [i \in 1..(IF ncat >= from THEN ncat - from + 1 ELSE 0) |->
                       Run(Project(CategoryRow(i + from - 1), layout), 1)]
      holes == SeqFilterIdx([g \in 1..Len(GapRows) |-> Run(Project(GapRows[g], layout), 1)],
                            [g \in 1..Len(GapRows) |-> g \in gaps], 1)
  IN one(ChartHeader) \o (IF ncat >= 1 THEN one(CategoryRow(1)) ELSE <<>>)
       \o (IF dup THEN one(DupRow) ELSE <<>>) \o cats(2) \o holes
       \o (IF bulk THEN <<Run(Project(BulkRow, layout), BulkRows)>> ELSE <<>>)

ChartRaws ==
  {ChartRaw(layout, ncat, dup, gaps, bulk) :
     layout \in Layouts, ncat \in 0..MaxCats, dup \in BOOLEAN,
     gaps \in SUBSET (1..Len(GapRows)), bulk \in BOOLEAN}

\* tables whose values are of more than one kind: categories that are a
\* number and a date, values that are a date and a number (one per category,
\* and two dates of one category), and categories that are numbers and a
\* text
KeysRaw == <<Run(Hdr2, 1), Run(<<IntCell(5), IntCell(10)>>, 1), Run(<<DateCell(6), IntCell(20)>>, 1)>>
LoneDateRaw ==
  <<Run(Hdr2, 1), Run(<<StrCell("a"), DateCell(1)>>, 1), Run(<<StrCell("b"), IntCell(5)>>, 1)>>
TwoDatesRaw ==
  <<Run(Hdr2, 1), Run(<<StrCell("a"), DateCell(1)>>, 2), Run(<<StrCell("b"), IntCell(5)>>, 1)>>
DigitsRaw ==
  <<Run(Hdr2, 1), Run(<<IntCell(10), IntCell(1)>>, 1), Run(<<IntCell(9), IntCell(2)>>, 1),
    Run(<<StrCell("North"), IntCell(3)>>, 1)>>
OddRaws == {KeysRaw, LoneDateRaw, TwoDatesRaw, DigitsRaw}

ChartFiles ==
  {File(Name(<<"c">>, ExtXlsx), SmallSize, Content("xlsx", raw)) : raw \in ChartRaws \cup OddRaws}
  \cup {File(Name(<<"c">>, ExtCsv), SmallSize, Content("csv", raw)) : raw \in {DigitsRaw, GoodRaw}}

Files ==
  CASE pool = "names" -> NamedFiles
    [] pool = "tables" -> TableFiles
    [] pool = "sheets" -> SheetFiles
    [] OTHER -> SessionFiles

\* the sessions that send requests
ActiveClients == IF pool = "sessions" THEN Clients ELSE {1}

\* the column names a chart request selects: two of the tables' columns and
\* a name no table has
ChartCols == {Named(StrCell("Region")), Named(StrCell("Sales")), Named(StrCell("Nope"))}

ChartRequests ==
  {[kind |-> k, body |-> "object", a |-> a, b |-> b] :
     k \in ChartKinds, a \in ChartCols, b \in ChartCols}
  \cup {[kind |-> k, body |-> "malformed", a |-> Named(StrCell("Nope")),
         b |-> Named(StrCell("Nope"))] : k \in ChartKinds}

Requests ==
  {[has_file |-> TRUE, file |-> f, length |-> f.size + Overhead] : f \in Files}
  \cup (IF pool = "names"
        THEN {[has_file |-> FALSE, file |-> File(<<>>, 0, Garbage), length |-> Overhead],
              [has_file |-> TRUE, file |-> File(<<>>, 0, Garbage), length |-> Overhead]}
        ELSE {})

\* the files uploaded before the explored part of a session: 0.csv, 1.csv, ...
SeedStems == <<"0", "1", "2", "3", "4", "5", "6", "7", "8", "9", "y", "z">>
SeedFile(i) == File(Name(<<SeedStems[i]>>, ExtCsv), SmallSize, Content("csv", GoodRaw))

RECURSIVE StSeed(_)
\* the Streamlit session after the first k seed files were uploaded
StSeed(k) ==
  IF k = 0 THEN StInitial
  ELSE process_uploaded_file(StSeed(k - 1), SeedFile(k), FALSE, k).sess

RECURSIVE FlSeed(_, _)
\* the Flask cookie and disk of client c after the first k seed files
FlSeed(k, c) ==
  IF k = 0 THEN [sess |-> FlInitial, disk |-> [d \in Clients |-> None]]
  ELSE LET before == FlSeed(k - 1, c)
       IN upload_file(before.sess, before.disk, c,
                      [has_file |-> TRUE, file |-> SeedFile(k),
                       length |-> SmallSize + Overhead], k)

-----------------------------------------------------------------------------
(* The state machine.                                                      *)

Apps == {"streamlit", "flask"}

\* no column selected; no chart slot rendered
NoColumn == Unnamed(-1)
NoPage == [line |-> Notice("none"), pie |-> Notice("none"), bar |-> Notice("none"),
           bar2 |-> Notice("none")]

NoRequest ==
  [op |-> "none", client |-> 0, file |-> None, preview |-> FALSE, status |-> "none",
   errs |-> <<>>, parsed |-> FALSE, temp_saved |-> FALSE, temp_left |-> FALSE,
   ret |-> None, kind |-> "none", body |-> "none", scan |-> NoScan,
   a |-> NoColumn, b |-> NoColumn, fig |-> NoFigure, page |-> NoPage,
   reader |-> "none"]

NoWork == [df |-> EmptyFrame, fault |-> NoFault, out |-> None]

Start(a, p, k, q) ==
  /\ app = a
  /\ pool = p
  /\ st = IF a = "streamlit" THEN StSeed(k) ELSE StInitial
  /\ fl = [c \in Clients |-> IF a = "flask" /\ c = 1 THEN FlSeed(k, c).sess ELSE FlInitial]
  /\ disk = IF a = "flask" THEN FlSeed(k, 1).disk ELSE [d \in Clients |-> None]
  /\ clock = k
  /\ quota = q
  /\ last = NoRequest
  /\ work = NoWork

\* sessions that already hold 0..MaxSeed uploads, offered the named files
Init == \E a \in Apps, k \in 0..MaxSeed : Start(a, "names", k, MaxRequests)

\* a fresh session offered one generated table
InitIngest == \E a \in Apps : Start(a, "tables", 0, 1)

\* the frames handed to optimize_dtypes: a text column, an integer column
\* that holds lo and hi, and an integer column that holds 0 and 100
EdgeValues ==
  {0, 100}
  \cup {INT8_MIN - 1, INT8_MIN, INT8_MIN + 1, INT8_MAX - 1, INT8_MAX, INT8_MAX + 1}
  \cup {INT16_MIN - 1, INT16_MIN, INT16_MIN + 1, INT16_MAX - 1, INT16_MAX, INT16_MAX + 1}
  \cup {INT32_MIN, INT32_MIN + 1, INT32_MAX - 1, INT32_MAX}

\* whole numbers of a float column: below the float32 significand, and the
\* first odd and the first even number above it
FloatValues == {10, FLOAT32_EXACT + 1, FLOAT32_EXACT + 2}

OptFrame(lo, hi, f) ==
  [cols |-> <<Named(StrCell("Region")), Named(StrCell("Sales")), Named(StrCell("Qty")),
              Named(StrCell("Rate"))>>,
   dtypes |-> <<"object", "int64", "int64", "float64">>,
   rows |-> <<Run(<<StrCell("North"), IntCell(lo), IntCell(0), IntCell(f)>>, 1),
              Run(<<StrCell("South"), IntCell(hi), IntCell(100), NaN>>, 1)>>,
   index |-> <<0, 1>>]

\* nothing fails, or the try block of the column Sales raises
OptFaults ==
  {NoFault} \cup {[col |-> 2, class |-> e] : e \in {"TypeError", "ValueError", "MemoryError"}}

InitOptimize ==
  \E lo \in EdgeValues, hi \in EdgeValues, f \in FloatValues, ft \in OptFaults :
    /\ lo <= hi
    /\ app = "streamlit"
    /\ pool = "columns"
    /\ st = StInitial
    /\ fl = [c \in Clients |-> FlInitial]
    /\ disk = [d \in Clients |-> None]
    /\ clock = 0
    /\ quota = 0
    /\ last = NoRequest
    /\ work = [df |-> OptFrame(lo, hi, f), fault |-> ft, out |-> None]

\* a fresh session offered one generated sheet
InitSheets == \E a \in Apps : Start(a, "sheets", 0, 1)

\* two fresh sessions that share the server
InitShared == \E a \in Apps : Start(a, "sessions", 0, MaxShared)

\* a session that has just uploaded one of the charted workbooks
InitCharts ==
  \E a \in Apps, f \in ChartFiles :
    \E s \in {process_uploaded_file(StInitial, f, FALSE, 1)},
       o \in {upload_file(FlInitial, [d \in Clients |-> None], 1,
                          [has_file |-> TRUE, file |-> f, length |-> f.size + Overhead], 1)} :
      /\ app = a
      /\ pool = "charts"
      /\ IF a = "streamlit" THEN s.ret /= None ELSE o.code = 200
      /\ st = IF a = "streamlit" THEN s.sess ELSE StInitial
      /\ fl = [c \in Clients |-> IF a = "flask" /\ c = 1 THEN o.sess ELSE FlInitial]
      /\ disk = IF a = "flask" THEN o.disk ELSE [d \in Clients |-> None]
      /\ clock = 1
      /\ quota = 1
      /\ last = NoRequest
      /\ work = NoWork

\* Streamlit: process_uploaded_file(uploaded_file, preview_only)
StProcess ==
  /\ app = "streamlit"
  /\ quota > 0
  /\ \E f \in Files, p \in BOOLEAN :
       \E o \in {process_uploaded_file(st, f, p, clock + 1)} :
         /\ st' = o.sess
         /\ last' = [op |-> "process_uploaded_file", client |-> 0, file |-> Some(f),
                     preview |-> p,
                     status |-> IF o.ret /= None THEN "Success" ELSE o.errs[Len(o.errs)],
                     errs |-> o.errs, parsed |-> o.parsed,
                     temp_saved |-> FALSE, temp_left |-> FALSE, ret |-> o.ret,
                     kind |-> "none", body |-> "none",
                     scan |-> IF o.parsed THEN StScan(f, p) ELSE NoScan,
                     a |-> NoColumn, b |-> NoColumn, fig |-> NoFigure, page |-> NoPage,
                     reader |-> IF o.parsed THEN ReaderFor(f.name) ELSE "none"]
  /\ clock' = clock + 1
  /\ quota' = quota - 1
  /\ UNCHANGED <<app, pool, fl, disk, work>>

\* Flask: POST /upload
FlUpload ==
  /\ app = "flask"
  /\ quota > 0
  /\ \E c \in ActiveClients, req \in Requests :
       \E o \in {upload_file(fl[c], disk, c, req, clock + 1)} :
         /\ fl' = [fl EXCEPT ![c] = o.sess]
         /\ disk' = o.disk
         /\ last' = [op |-> "upload_file", client |-> c,
                     file |-> IF req.has_file THEN Some(req.file) ELSE None,
                     preview |-> FALSE, status |-> o.msg, errs |-> <<o.msg>>,
                     parsed |-> o.parsed, temp_saved |-> o.temp_saved,
                     temp_left |-> o.temp_left,
                     ret |-> IF o.code = 200 THEN o.disk[o.sess.session_id[1]] ELSE None,
                     kind |-> "none", body |-> "none",
                     scan |-> IF o.parsed
                              THEN FlScan(secure_filename(req.file.name), req.file.content)
                              ELSE NoScan,
                     a |-> NoColumn, b |-> NoColumn, fig |-> NoFigure, page |-> NoPage,
                     reader |-> IF o.parsed THEN ReaderFor(secure_filename(req.file.name))
                                ELSE "none"]
  /\ clock' = clock + 1
  /\ quota' = quota - 1
  /\ UNCHANGED <<app, pool, st, work>>

\* Flask: GET /
FlIndex ==
  /\ app = "flask"
  /\ quota > 0
  /\ \E c \in ActiveClients :
       \E o \in {index(fl[c], disk)} :
         /\ fl' = [fl EXCEPT ![c] = o.sess]
         /\ last' = [NoRequest EXCEPT !.op = "index", !.client = c, !.status = o.msg]
  /\ quota' = quota - 1
  /\ UNCHANGED <<app, pool, st, disk, clock, work>>

\* Flask: POST /reset
FlReset ==
  /\ app = "flask"
  /\ quota > 0
  /\ \E c \in ActiveClients :
       \E o \in {reset(fl[c], disk)} :
         /\ fl' = [fl EXCEPT ![c] = o.sess]
         /\ disk' = o.disk
         /\ last' = [NoRequest EXCEPT !.op = "reset", !.client = c, !.status = "Success"]
  /\ quota' = quota - 1
  /\ UNCHANGED <<app, pool, st, clock, work>>

\* Flask: POST /chart/bar, /chart/line, /chart/pie
FlChart ==
  /\ app = "flask"
  /\ quota > 0
  /\ \E c \in ActiveClients, req \in ChartRequests :
       \E o \in chart(fl[c], disk, c, req) :
         /\ fl' = [fl EXCEPT ![c] = o.sess]
         /\ last' = [NoRequest EXCEPT !.op = "chart", !.client = c, !.status = o.msg,
                                      !.kind = req.kind, !.body = req.body,
                                      !.a = req.a, !.b = req.b, !.fig = o.fig]
  /\ quota' = quota - 1
  /\ UNCHANGED <<app, pool, st, disk, clock, work>>

\* optimize_dtypes(df) called on the frame in `work`, then the except clause
\* of the reader that called it: an exception leaving optimize_dtypes makes
\* read_csv_chunked and read_excel_optimized return pd.DataFrame()
Optimize ==
  /\ pool = "columns"
  /\ work.out = None
  /\ \E o \in {optimize_dtypes_under(work.df, work.fault)} :
       work' = [work EXCEPT !.out = Some([df |-> o.df, raised |-> o.raised,
                                         reader |-> IF o.raised = "none" THEN o.df
                                                    ELSE EmptyFrame])]
  /\ UNCHANGED <<app, pool, st, fl, disk, clock, quota, last>>

\* Streamlit: a run of the page script with a dataset in the session draws
\* the four charts
StRender ==
  /\ app = "streamlit"
  /\ quota > 0
  /\ st.df /= None
  /\ last' = [NoRequest EXCEPT !.op = "render", !.page = st_charts(st.df[1])]
  /\ quota' = quota - 1
  /\ UNCHANGED <<app, pool, st, fl, disk, clock, work>>

Next ==
  \/ StProcess
  \/ FlUpload
  \/ FlIndex
  \/ FlReset
  \/ FlChart

Spec == Init /\ [][Next]_vars

SpecIngest == InitIngest /\ [][Next]_vars

SpecShared == InitShared /\ [][Next]_vars

SpecSheets == InitSheets /\ [][Next]_vars

NextCharts ==
  \/ StRender
  \/ FlChart

SpecCharts == InitCharts /\ [][NextCharts]_vars

NextOptimize == Optimize

SpecOptimize == InitOptimize /\ [][NextOptimize]_vars

-----------------------------------------------------------------------------
(* Views of the state used by the properties.                              *)

\* the upload history of the running program's session
Hist ==
  IF app = "streamlit" THEN st.recent_uploads
  ELSE IF fl[1].recent_uploads = None THEN <<>> ELSE fl[1].recent_uploads[1]

\* the dataset the session serves: st.session_state.df, or the pickle of the
\* Flask session when the cookie still names a file
Dataset ==
  IF app = "streamlit" THEN st.df
  ELSE IF fl[1].session_id = None \/ fl[1].filename = None THEN None
  ELSE disk[fl[1].session_id[1]]

CurrentFilename == IF app = "streamlit" THEN st.filename ELSE fl[1].filename

UploadOps == {"process_uploaded_file", "upload_file"}

LimitBytes == 50 * 1024 * 1024

Range(h) == {h[i] : i \in 1..Len(h)}

Pos(h, rec) == CHOOSE q \in 1..Len(h) : h[q] = rec

-----------------------------------------------------------------------------
(* C1: a failed upload (unsupported extension, too large, parse failure,   *)
(* empty dataset, in process_uploaded_file and in upload_file) leaves the  *)
(* whole session state as it was before the request: dataset, filename,    *)
(* file size, truncation flag and upload history.                          *)
C1_FailedUploadKeepsSession ==
  [][(last'.op \in UploadOps /\ last'.status /= "Success")
       => (st' = st /\ fl' = fl /\ disk' = disk)]_vars

\* a failed upload (empty dataset or parse failure) answered in a session
\* that holds a dataset and a history
C1_Witness ==
  /\ last.op \in UploadOps
  /\ last.status \in {"EmptyFile", "ErrorProcessing"}
  /\ Dataset /= None
  /\ Len(Hist) >= 1

(* C2: process_uploaded_file answers FileTooLarge exactly when the byte     *)
(* size of a file of an allowed type exceeds 50 MB; a file of exactly 50 MB *)
(* goes on to parsing; a rejected file is not parsed and the session is     *)
(* left untouched.                                                          *)
C2_SizeGuard ==
  [][(last'.op = "process_uploaded_file" /\ allowed_file(last'.file[1].name))
       => /\ (last'.status = "FileTooLarge") <=> (last'.file[1].size > LimitBytes)
          /\ last'.parsed <=> (last'.file[1].size <= LimitBytes)
          /\ (last'.status = "FileTooLarge") => (st' = st)]_vars

\* a file of exactly 50 MB was parsed and stored
C2_Witness ==
  /\ last.op = "process_uploaded_file"
  /\ last.file[1].size = LimitBytes
  /\ last.parsed
  /\ last.status = "Success"
  /\ st.file_size = LimitBytes

(* C3: an upload whose filename has no extension among xlsx, xls, csv       *)
(* (case-insensitively, after the last dot) is answered UnsupportedFileType *)
(* and never parsed, whatever its size.                                     *)
C3_ExtensionFirst ==
  (last.op \in UploadOps /\ last.file /= None /\ last.file[1].name /= <<>>
     /\ ~allowed_file(last.file[1].name))
    => (last.status = "InvalidFileType" /\ ~last.parsed)

(* C4: the upload history never holds more than 10 records.                 *)
C4_HistoryBounded == Len(Hist) <= 10

\* an eleventh distinct file was uploaded: the history is full and the
\* oldest record has left it
C4_Witness ==
  /\ last.op \in UploadOps
  /\ last.status = "Success"
  /\ clock > 10
  /\ Len(Hist) = 10
  /\ \A i \in 1..Len(Hist) : Hist[i].upload_time /= 1

(* C5: the history is most-recent-first: after a successful upload its      *)
(* record is at position 0, the records kept keep their relative order, and *)
(* a record nearer the front was always ingested later.                     *)
C5_NewestFirst == \A i, j \in 1..Len(Hist) : i < j => Hist[i].upload_time > Hist[j].upload_time

C5_InsertAtFront ==
  (last'.op \in UploadOps /\ last'.status = "Success")
    => /\ Len(Hist') >= 1
       /\ Hist'[1].upload_time = clock'
       /\ Some(Hist'[1].filename) = CurrentFilename'
       /\ Hist'[1].file_size = last'.file[1].size
       /\ \A i, j \in 1..Len(Hist) :
            (i < j /\ Hist[i] \in Range(Hist') /\ Hist[j] \in Range(Hist'))
              => Pos(Hist', Hist[i]) < Pos(Hist', Hist[j])

C5_MostRecentFirst == []C5_NewestFirst /\ [][C5_InsertAtFront]_vars

\* a file whose name was deep in the history was uploaded again and is now
\* in front of the records kept
C5_Witness ==
  /\ last.op \in UploadOps
  /\ last.status = "Success"
  /\ Len(Hist) >= 3
  /\ Hist[1].filename = Name(<<"0">>, ExtCsv)
  /\ Hist[1].upload_time = clock

(* C6 as stated: a record's fields never change and it leaves the history   *)
(* only in a step in which the history would otherwise exceed 10 records.   *)
C6_Step_Original ==
  \A i \in 1..Len(Hist) :
    \/ Hist[i] \in Range(Hist')
    \/ /\ \A q \in 1..Len(Hist') : Hist'[q].upload_time /= Hist[i].upload_time
       /\ Len(Hist) = 10
       /\ Len(Hist') = 10

C6_OnlyEvictedAtCap == [][C6_Step_Original]_vars

(* C6 amended: a record's fields never change; a record leaves the history  *)
(* only through a successful upload, either because that upload carries the *)
(* same filename (its record replaces the older one) or because the history *)
(* would otherwise exceed 10 records (the last record is evicted).  Failed  *)
(* uploads, page views and resets remove and change nothing.                *)
C6_Step_Amended ==
  \A i \in 1..Len(Hist) :
    \/ Hist[i] \in Range(Hist')
    \/ /\ \A q \in 1..Len(Hist') : Hist'[q].upload_time /= Hist[i].upload_time
       /\ last'.op \in UploadOps
       /\ last'.status = "Success"
       /\ \/ Hist'[1].filename = Hist[i].filename
          \/ /\ Len(Hist) = 10
             /\ Len(Hist') = 10
             /\ i = 10
             /\ \A q \in 1..Len(Hist) : Hist[q].filename /= Hist'[1].filename

C6_EvictedOrReplaced == [][C6_Step_Amended]_vars

\* a file name already in a history of fewer than 10 records was uploaded
\* again with other content: the older record of that name is gone
C6_Witness ==
  /\ last.op \in UploadOps
  /\ last.status = "Success"
  /\ Len(Hist) \in 2..9
  /\ Hist[1].filename = Name(<<"0">>, ExtCsv)
  /\ Hist[1].row_count = 1
  /\ \A i \in 2..Len(Hist) : Hist[i].filename /= Hist[1].filename

-----------------------------------------------------------------------------
(* Views of the ingested file used by the ingestion properties.            *)

LastFile == last.file[1]

\* the data rows of the uploaded table when its first row is the header
SrcData == DropRows(LastFile.content.raw, 1)

\* how many of these rows hold at least one value
NonEmptyRows(rs) ==
  SumSeq([r \in 1..Len(rs) |-> IF RowAllNa(rs[r]) THEN 0 ELSE rs[r].n])

\* a well-formed CSV handed to the chunked reader
CsvIngest ==
  /\ last.op = "process_uploaded_file"
  /\ IsCsvName(LastFile.name)
  /\ CsvParses(LastFile.content)

\* a well-formed table (CSV or workbook) handed to process_uploaded_file
\* under a name that selects the parser of its format
TableIngest ==
  /\ last.op = "process_uploaded_file"
  /\ LastFile.content.raw /= <<>>
  /\ \/ IsCsvName(LastFile.name) /\ LastFile.content.fmt = "csv"
     \/ ~IsCsvName(LastFile.name) /\ LastFile.content.fmt = "xlsx"

(* C7: a CSV with more rows than MAX_ROWS, read by read_csv_chunked with    *)
(* preview_only false, is stored as a dataset of exactly MAX_ROWS rows with *)
(* rows_limited true, also when some of its rows are fully empty.  Stated   *)
(* for the inputs that keep more than MAX_ROWS rows once the empty rows are *)
(* dropped.                                                                 *)
C7_RowCapExact ==
  (CsvIngest /\ ~last.preview /\ NonEmptyRows(SrcData) > 100000)
    => /\ last.status = "Success"
       /\ FrameLen(last.ret[1]) = 100000
       /\ st.rows_limited

(* C8: rows_limited is true whenever source rows were left out because of   *)
(* the row cap.  Stated for full (non-preview) ingestions of tables whose   *)
(* first row is a proper header.                                            *)
C8_FlagWhenRowsLeftOut ==
  (TableIngest /\ ~last.preview /\ last.status = "Success"
     /\ RowAt(LastFile.content.raw, 0) = Hdr2
     /\ FrameLen(last.ret[1]) < NonEmptyRows(SrcData))
    => st.rows_limited

(* C9: an input all of whose data rows are entirely missing is answered     *)
(* EmptyDataset and never stored, for CSV and workbooks and for both values *)
(* of preview_only.                                                         *)
C9_AllBlankIsEmpty ==
  (TableIngest /\ NonEmptyRows(SrcData) = 0)
    => (last.ret = None /\ last.status = "EmptyFile")

(* C10: a dataset returned by a successful ingestion (process_uploaded_file *)
(* with either value of preview_only, and upload_file) has no column that   *)
(* is missing in all rows and no row that is missing in all columns.        *)
C10_NoBlankRowOrColumn ==
  (last.op \in UploadOps /\ last.status = "Success")
    => /\ \A j \in 1..NCols(last.ret[1]) : ~ColAllNa(last.ret[1], j)
       /\ \A r \in 1..Len(last.ret[1].rows) : ~RowAllNa(last.ret[1].rows[r])

-----------------------------------------------------------------------------
(* Views used by the error-handling properties.                            *)

\* the parser that the file's name selects raises on the file's bytes
ParserRaises(file) ==
  IF IsCsvName(file.name) THEN ~CsvParses(file.content) ELSE ~ExcelParses(file.content)

\* the messages that report a parse failure with the underlying message
ParseErrorKinds == {"ErrorProcessing", "ErrorReadingCSV", "ErrorReadingExcel"}

\* an upload that reached the parser with bytes the parser cannot read
MalformedUpload ==
  /\ last.op \in UploadOps
  /\ last.parsed
  /\ ParserRaises(LastFile)

(* C11: when the parser raises on the uploaded bytes (CSV or workbook), the *)
(* upload is answered with a parse error only: nothing is returned or       *)
(* stored, the answer is a parse-error message, and the empty-dataset       *)
(* message is not among the messages reported.                              *)
C11_ParseErrorOnly ==
  MalformedUpload
    => /\ last.ret = None
       /\ last.status \in ParseErrorKinds
       /\ \A i \in 1..Len(last.errs) : last.errs[i] /= "EmptyFile"

\* C11 restricted to the paths on which the exception reaches the handler's
\* own except clause: upload_file, and the CSV preview read
C11_HandlerCatches ==
  (MalformedUpload /\ (app = "flask" \/ (IsCsvName(LastFile.name) /\ last.preview)))
    => /\ last.ret = None
       /\ last.errs = <<"ErrorProcessing">>

-----------------------------------------------------------------------------
(* Views used by the session properties.                                   *)

\* the frame that ingesting the file of the last request gives in a session
\* that never held anything
FreshIngest ==
  IF app = "streamlit"
  THEN process_uploaded_file(StInitial, LastFile, last.preview, 0).ret
  ELSE LET o == upload_file(FlInitial, [d \in Clients |-> None], 1,
                            [has_file |-> TRUE, file |-> LastFile,
                             length |-> LastFile.size + Overhead], 0)
       IN o.disk[1]

SessionId == IF app = "streamlit" THEN None ELSE fl[1].session_id

NoDataAnswers == {"DataNotFound", "NoDataAvailable"}

\* after a successful upload the session serves exactly the ingested frame
C12_UploadReplaces ==
  (last.op \in UploadOps /\ last.status = "Success")
    => /\ Dataset = last.ret
       /\ Dataset /= None
       /\ Dataset = FreshIngest

\* reset leaves no dataset and keeps the history and the session id
C12_ResetDiscards ==
  (last'.op = "reset")
    => /\ Dataset' = None
       /\ Hist' = Hist
       /\ SessionId' = SessionId

\* without a dataset: only a successful upload brings one, page views report
\* no data, and every chart request gets one of the two no-data answers
C12_NoDataUntilUpload ==
  (Dataset = None)
    => /\ (Dataset' /= None) => (last'.op \in UploadOps /\ last'.status = "Success")
       /\ (last'.op = "index") => (last'.status \in {"NoData", "DataFileNotFound"})
       /\ (last'.op = "chart") => (last'.status \in NoDataAnswers)

(* C12 as stated: a successful upload makes the session's dataset exactly   *)
(* the frame just ingested, whatever the session held before; reset leaves  *)
(* the session without a dataset and with its history and session id as     *)
(* they were; and from then until the next successful upload every page     *)
(* view reports no data and every chart request is answered 'Data not       *)
(* found' or 'No data available'.                                           *)
C12_ReplaceAndReset ==
  []C12_UploadReplaces /\ [][C12_ResetDiscards /\ C12_NoDataUntilUpload]_vars

\* without a dataset: only a successful upload brings one, page views report
\* no data, and no chart request gets a chart: a session without an id is
\* answered 'No data available' whatever the request body; a session with
\* an id is answered 'Data not found' when the body is a JSON object, and
\* the error of reading the body (status 500) when it is not, because the
\* handler reads the body before it looks for the dataset
C12_NoChartUntilUpload ==
  (Dataset = None)
    => /\ (Dataset' /= None) => (last'.op \in UploadOps /\ last'.status = "Success")
       /\ (last'.op = "index") => (last'.status \in {"NoData", "DataFileNotFound"})
       /\ (last'.op = "chart")
            => /\ SessionId' = SessionId
               /\ last'.status = (IF SessionId = None THEN "NoDataAvailable"
                                  ELSE IF last'.body = "object" THEN "DataNotFound"
                                  ELSE "ChartError")

(* C12 amended: a successful upload makes the session's dataset exactly the *)
(* frame just ingested, whatever the session held before; reset leaves the  *)
(* session without a dataset and with its history and session id as they    *)
(* were; and from then until the next successful upload every page view     *)
(* reports no data and no chart request returns a chart: a chart request    *)
(* whose body is a JSON object is answered 'Data not found' or 'No data     *)
(* available', and one whose body is not a JSON object is answered 'No data *)
(* available' in a session without an id and with a processing error       *)
(* (status 500) in a session that has one.                                  *)
C12_ReplaceResetNoChart ==
  []C12_UploadReplaces /\ [][C12_ResetDiscards /\ C12_NoChartUntilUpload]_vars

\* a chart was asked for with a body that is not a JSON object, after the
\* reset of a session that has an id and a history: the answer is the
\* error of reading the body
C12_Witness ==
  /\ last.op = "chart"
  /\ last.body /= "object"
  /\ last.status = "ChartError"
  /\ SessionId /= None
  /\ Len(Hist) >= 2
  /\ Dataset = None

\* the dataset stored for the session of client c
StoredFor(c) ==
  IF fl[c].session_id = None THEN None ELSE disk[fl[c].session_id[1]]

\* the session that sent the last request holds what that request wrote
C13_OwnLastWrite ==
  /\ (last.op = "upload_file" /\ last.status = "Success")
       => (StoredFor(last.client) /= None /\ StoredFor(last.client) = FreshIngest)
  /\ (last.op = "reset") => (StoredFor(last.client) = None)

\* a request changes nothing of the other sessions, and changes the dataset
\* of its own session only when it is a successful upload or a reset
C13_Step ==
  \A c \in Clients :
    /\ (last'.client /= c) => (fl'[c] = fl[c] /\ StoredFor(c)' = StoredFor(c))
    /\ (last'.client = c /\ StoredFor(c)' /= StoredFor(c))
         => \/ last'.op = "upload_file" /\ last'.status = "Success"
            \/ last'.op = "reset"

(* C13: with the uploads, resets, page views and chart requests of two      *)
(* sessions interleaved in any order, a request never changes the cookie or *)
(* the stored dataset of the other session; a session's stored dataset is   *)
(* the whole frame of its own last successful upload, or absent after its   *)
(* own reset, and nothing else changes it.                                  *)
C13_SessionsIsolated == []C13_OwnLastWrite /\ [][C13_Step]_vars

\* session 1 has reset after both sessions uploaded: session 2 still holds
\* its dataset
C13_Witness ==
  /\ last.op = "reset"
  /\ last.client = 1
  /\ fl[1].session_id /= None
  /\ StoredFor(1) = None
  /\ StoredFor(2) /= None
  /\ fl[2].filename /= None

(* C14: a chart request (bar, line or pie), whether it returns a chart or  *)
(* an error, leaves the session cookie (session id, filename, history) and *)
(* the stored datasets exactly as they were.                               *)
C14_ChartNoSideEffect ==
  [][(last'.op = "chart") => (fl' = fl /\ disk' = disk /\ st' = st)]_vars

\* a pie chart was built from the dataset of a session with a history
C14_Witness ==
  /\ last.op = "chart"
  /\ last.kind = "pie"
  /\ last.status = "Chart"
  /\ Dataset /= None
  /\ CurrentFilename /= None
  /\ Len(Hist) >= 2

-----------------------------------------------------------------------------
(* Properties of the normalisation: cleaning and optimize_dtypes.           *)

\* the normalisation of the pipeline applied to a frame
Normalize(df) == optimize_dtypes(Clean(df))

\* a full (not preview) ingestion by process_uploaded_file that succeeded
FullIngest ==
  /\ last.op = "process_uploaded_file"
  /\ ~last.preview
  /\ last.status = "Success"

(* C15: for the dataset D that a full ingestion returns, dropping the       *)
(* all-missing columns and rows of D and running optimize_dtypes on the     *)
(* result gives D again: same columns, rows, values and dtypes.             *)
C15_NormalizeIdempotent ==
  FullIngest => (Normalize(last.ret[1]) = last.ret[1])

\* C15 for the tables read in one piece: workbooks, and CSV files of at most
\* CHUNK_SIZE rows
C15_OnePieceIdempotent ==
  (FullIngest /\ (~IsCsvName(LastFile.name) \/ NRows(SrcData) <= CHUNK_SIZE))
    => (Normalize(last.ret[1]) = last.ret[1])

-----------------------------------------------------------------------------
(* optimize_dtypes on its own (SpecOptimize).                               *)

\* optimize_dtypes returned a frame
Optimized == work.out /= None /\ work.out[1].raised = "none"

\* the limits of the widths, narrowest first
IntWidths ==
  <<[name |-> "int8", min |-> INT8_MIN, max |-> INT8_MAX],
    [name |-> "int16", min |-> INT16_MIN, max |-> INT16_MAX],
    [name |-> "int32", min |-> INT32_MIN, max |-> INT32_MAX]>>

\* the widths whose range strictly contains the values of column j
Fitting(df, j) ==
  {w \in 1..Len(IntWidths) :
     \A v \in ColVals(df, j) : IntWidths[w].min < v /\ v < IntWidths[w].max}

\* the narrowest of them, or the dtype the column had when there is none
NarrowestFit(df, j) ==
  IF Fitting(df, j) = {} THEN df.dtypes[j] ELSE IntWidths[SetMin(Fitting(df, j))].name

\* the columns that optimize_dtypes was left to handle
Untroubled(j) == work.fault.col /= j

(* C16: every integer column gets the narrowest of int8, int16, int32 whose *)
(* range strictly contains [min, max] of the column, and keeps its dtype    *)
(* when there is none; the column of values 0 and 100 gets int8.            *)
C16_NarrowestStrictWidth ==
  Optimized
    => /\ \A j \in 1..NCols(work.df) :
            (work.df.dtypes[j] \in IntDtypes /\ Untroubled(j))
              => (work.out[1].df.dtypes[j] = NarrowestFit(work.df, j))
       /\ ColVals(work.df, 3) = {0, 100}
       /\ work.out[1].df.dtypes[3] = "int8"

\* a column whose maximum is the int8 limit itself went to int16, beside the
\* column of 0 and 100 that went to int8
C16_Witness ==
  /\ Optimized
  /\ work.fault = NoFault
  /\ SetMax(ColVals(work.df, 2)) = 127
  /\ SetMin(ColVals(work.df, 2)) = 0
  /\ work.out[1].df.dtypes[2] = "int16"
  /\ work.out[1].df.dtypes[3] = "int8"

(* C17: the frame returned by optimize_dtypes has the same column names in  *)
(* the same order and the same number of rows; the text column is as it     *)
(* was (dtype and cells); every cell of an integer column holds the value   *)
(* it held before.                                                          *)
C17_ContentPreserved ==
  Optimized
    => /\ work.out[1].df.cols = work.df.cols
       /\ FrameLen(work.out[1].df) = FrameLen(work.df)
       /\ Len(work.out[1].df.rows) = Len(work.df.rows)
       /\ \A j \in 1..NCols(work.df) :
            /\ (work.df.dtypes[j] = "object")
                 => (work.out[1].df.dtypes[j] = "object")
            /\ \A r \in 1..Len(work.df.rows) :
                 work.out[1].df.rows[r].cells[j] = work.df.rows[r].cells[j]

\* a column spanning -127 .. 126 was cast to int8 and kept its values
C17_Witness ==
  /\ Optimized
  /\ work.df.rows[1].cells[2].i = -127
  /\ work.df.rows[2].cells[2].i = 126
  /\ work.out[1].df.dtypes[2] = "int8"
  /\ work.out[1].df.rows[1].cells[2].i = -127
  /\ work.out[1].df.rows[2].cells[2].i = 126

\* what C18 asks of a call in which the try block of a column raised
FailureSwallowed ==
  /\ work.out[1].raised = "none"
  /\ work.out[1].df.dtypes[work.fault.col] = work.df.dtypes[work.fault.col]
  /\ \A r \in 1..Len(work.df.rows) :
       work.out[1].df.rows[r].cells[work.fault.col] = work.df.rows[r].cells[work.fault.col]
  /\ work.out[1].df.dtypes[3] = "int8"
  /\ work.out[1].reader = work.out[1].df
  /\ ~IsEmptyFrame(work.out[1].reader)

(* C18: whatever exception the min / max computation or the cast of a       *)
(* column raises, optimize_dtypes returns; the column is as it was, the     *)
(* columns after it are still narrowed, and the reader that called          *)
(* optimize_dtypes returns the dataset.                                     *)
C18_AnyFailureSwallowed ==
  (work.out /= None /\ work.fault.col /= 0) => FailureSwallowed

\* C18 for the two exception classes named by the except clause
C18_NamedFailuresSwallowed ==
  (work.out /= None /\ work.fault.col /= 0 /\ work.fault.class \in {"TypeError", "ValueError"})
    => FailureSwallowed

-----------------------------------------------------------------------------
(* Header recovery on uploaded workbooks (SpecSheets).                      *)

\* a workbook with at least one row was handed to the Excel reader
SheetIngest ==
  /\ last.op \in UploadOps
  /\ last.parsed
  /\ ~IsCsvName(LastFile.name)
  /\ LastFile.content.fmt = "xlsx"
  /\ LastFile.content.raw /= <<>>

\* nrows of the reads of the last upload (Flask reads the whole sheet)
LastRows ==
  IF last.op = "process_uploaded_file"
  THEN (IF last.preview THEN PREVIEW_ROWS ELSE MAX_ROWS)
  ELSE NRows(LastFile.content.raw)

\* the rows of the sheet that the read with header h hands to the parser
SheetData(h) == get_sheet_data(LastFile.content.raw, h + 1 + LastRows)

\* the rows that the first parse receives
SheetRaw == SheetData(0)

\* the rows that the header-less read of the first 10 rows sees
SheetScan == ParseRaw(LastFile.content.raw, 10)

\* the column names of the dataset returned (none when the upload failed)
ResultCols == IF last.ret = None THEN <<>> ELSE last.ret[1].cols

ResultLen == IF last.ret = None THEN 0 ELSE FrameLen(last.ret[1])

\* a header row as it should be: two or more cells, all text that does not
\* read like a placeholder, one of them longer than two characters
ProperHeader(cells) ==
  /\ Len(cells) >= 2
  /\ \A j \in 1..Len(cells) : cells[j].k = "str" /\ ~Contains(cells[j].s, "Unnamed:")
  /\ \E j \in 1..Len(cells) : Len(cells[j].s) > 2

\* the dataset was parsed with row h of the sheet as header: its columns are
\* named by that row, its rows are the rows below that hold a value, and the
\* only error that can be reported is that none does
ParsedWithHeader(h) ==
  /\ Range(ResultCols) \subseteq
       (IF SheetData(h) = <<>> THEN {} ELSE Range(HeaderNames(RowAt(SheetData(h), h))))
  /\ ResultLen = NonEmptyRows(DropRows(SheetData(h), h + 1))
  /\ last.status = (IF ResultLen > 0 THEN "Success" ELSE "EmptyFile")
  /\ \A i \in 1..Len(last.errs) : last.errs[i] \notin ParseErrorKinds

\* a blank first row followed by a proper header row: that row is selected
\* and no column name is a placeholder
C19_TitleThenHeader ==
  (SheetIngest /\ NRows(SheetRaw) >= 2 /\ RowAllNa(Run(RowAt(SheetRaw, 0), 1))
     /\ ProperHeader(RowAt(SheetRaw, 1)))
    => /\ last.scan.scanned
       /\ last.scan.header_row = 1
       /\ \A j \in 1..Len(ResultCols) : ~IsUnnamed(ResultCols[j])

\* a row found at an index above 0 is the first qualifying one of the rows
\* scanned, and the sheet is parsed again with it as header
C19_Reparsed ==
  (SheetIngest /\ last.scan.header_row > 0)
    => /\ last.scan.header_row < NRows(SheetScan)
       /\ RowQualifies(SheetScan, RowAt(SheetScan, last.scan.header_row))
       /\ \A idx \in 0..(last.scan.header_row - 1) :
            ~RowQualifies(SheetScan, RowAt(SheetScan, idx))
       /\ ParsedWithHeader(last.scan.header_row)

\* no row qualifies, or row 0 does: the first parse is kept, without error
C19_Fallback ==
  (SheetIngest /\ last.scan.scanned /\ last.scan.header_row <= 0)
    => /\ \/ /\ last.scan.header_row = 0
             /\ RowQualifies(SheetScan, RowAt(SheetScan, 0))
          \/ /\ last.scan.header_row = -1
             /\ \A idx \in 0..(NRows(SheetScan) - 1) :
                  ~RowQualifies(SheetScan, RowAt(SheetScan, idx))
       /\ ParsedWithHeader(0)

(* C19: when the header repair finds a qualifying row among the rows it     *)
(* scans at an index above 0, the workbook is parsed again with that row as *)
(* header; for a sheet with a blank first row followed by a proper header   *)
(* row, that row is selected and no column name is a placeholder; when no   *)
(* row qualifies, or the qualifying row is row 0, the first parse with its  *)
(* placeholder names is kept and no error is reported.                      *)
C19_HeaderRecoveryOutcome == C19_TitleThenHeader /\ C19_Reparsed /\ C19_Fallback

\* the sheet with a blank first row, the header Region / Sales and data was
\* uploaded: row 1 was selected and names the columns
C19_Witness ==
  /\ SheetIngest
  /\ NRows(SheetRaw) >= 2
  /\ RowAllNa(Run(RowAt(SheetRaw, 0), 1))
  /\ RowAt(SheetRaw, 1) = Hdr2
  /\ last.scan.header_row = 1
  /\ last.status = "Success"
  /\ ResultCols = HeaderNames(Hdr2)

\* the first parse of the workbook (header=0)
FirstParse == ParseSheet(LastFile.content.raw, 0, LastRows)

NarrowParse == SheetIngest /\ NCols(FirstParse) < 2

(* C20: a workbook whose first parse has fewer than 2 columns never         *)
(* triggers the header repair: whatever the column names, the header-less   *)
(* re-read and the scan for a header row are not performed.                 *)
C20_NarrowParseNoRecovery == NarrowParse => ~last.scan.scanned

\* what holds instead: the scan of such a workbook may run, but no row of it
\* has two non-null cells, so none is selected and the first parse is kept
C20_NarrowParseKept ==
  NarrowParse => (last.scan.header_row = -1 /\ ParsedWithHeader(0))

-----------------------------------------------------------------------------
(* Chart properties (SpecCharts).                                           *)

\* the dataset of the session that made the last request
Charted == IF app = "streamlit" THEN st.df[1] ELSE disk[1][1]

\* a pie chart was drawn from a category column and a numeric column
PieDrawn ==
  \/ last.op = "render" /\ last.page.pie.msg = "Chart"
  \/ /\ last.op = "chart" /\ last.kind = "pie" /\ last.status = "Chart"
     /\ last.a /= last.b
     /\ Charted.dtypes[ColIndex(Charted, last.b)] \in NumericDtypes

ThePie == IF app = "streamlit" THEN last.page.pie.fig ELSE last.fig

\* the positions of the category column and of the value column of the pie
PieCat == IF app = "streamlit" THEN categorical_cols(Charted)[1] ELSE ColIndex(Charted, last.a)
PieVal == IF app = "streamlit" THEN numeric_cols(Charted)[1] ELSE ColIndex(Charted, last.b)

\* the values of column j that are not missing
Distinct(j) == {c \in {Column(Charted, j)[r] : r \in 1..FrameLen(Charted)} : NotNa(c)}

\* the total of the value column over the rows of category `key`
CategoryTotal(key) ==
  LET cat == Column(Charted, PieCat)
      val == Column(Charted, PieVal)
  IN SumSeq([r \in 1..Len(cat) |-> IF cat[r] = key /\ NotNa(val[r]) THEN val[r].i ELSE 0])

\* every slice is a category of the dataset, no category has two slices, and
\* a slice's value is the total of its category
SlicesAreTotals ==
  /\ Len(ThePie.x) = Len(ThePie.y)
  /\ \A i \in 1..Len(ThePie.x) :
       /\ ThePie.x[i] \in Distinct(PieCat)
       /\ \A q \in 1..Len(ThePie.x) : ThePie.x[q] = ThePie.x[i] => q = i
       /\ ThePie.y[i] = IntCell(CategoryTotal(ThePie.x[i]))

(* C21: the pie chart has exactly one slice per distinct value of the       *)
(* chosen category column, and each slice's value is the sum of the chosen  *)
(* numeric column over the rows of that category, for any number of         *)
(* distinct categories.                                                     *)
C21_PieSumsByCategory ==
  PieDrawn => (SlicesAreTotals /\ {ThePie.x[i] : i \in 1..Len(ThePie.x)} = Distinct(PieCat))

\* what holds: the slices drawn are category totals in both programs, the
\* Flask handler draws every category, the Streamlit page at most five
C21_SlicesAreTotals == PieDrawn => SlicesAreTotals

C21_FlaskEveryCategory ==
  (PieDrawn /\ app = "flask") => {ThePie.x[i] : i \in 1..Len(ThePie.x)} = Distinct(PieCat)

C21_StreamlitFirstFive ==
  (PieDrawn /\ app = "streamlit")
    => Len(ThePie.x) = Min2(5, Cardinality(Distinct(PieCat)))

\* a bar chart was drawn: one of the two bar charts of the Streamlit page, or
\* the answer of the Flask handler
BarDrawn ==
  \/ last.op = "render" /\ (last.page.bar.msg = "Chart" \/ last.page.bar2.msg = "Chart")
  \/ last.op = "chart" /\ last.kind = "bar" /\ last.status = "Chart"

\* a bar chart was asked for: the page was drawn, or a well-formed request
\* for existing columns reached the Flask handler
BarAsked ==
  \/ last.op = "render"
  \/ /\ last.op = "chart" /\ last.kind = "bar" /\ last.body = "object"
     /\ HasCol(Charted, last.a) /\ HasCol(Charted, last.b)

(* C22: building a bar chart fails with InsufficientColumns when the        *)
(* dataset has fewer than 2 columns and with NoNumericColumn when it has no *)
(* numeric column; a bar chart is produced only for a dataset with at least *)
(* 2 columns and at least one numeric column.                               *)
C22_BarNeedsColumns ==
  /\ BarDrawn => (NCols(Charted) >= 2 /\ NumericCols(Charted) >= 1)
  /\ (BarAsked /\ (NCols(Charted) < 2 \/ NumericCols(Charted) = 0)) => ~BarDrawn

\* what holds: the Streamlit page draws no bar chart without a numeric
\* column, and its second bar chart needs two numeric columns (on a run of
\* the page that the exception of the pie's group-by did not end)
C22_StreamlitNeedsNumeric ==
  (last.op = "render" /\ last.page.pie /= Raised)
    => /\ (last.page.bar.msg = "Chart") <=> (NumericCols(Charted) >= 1)
       /\ (last.page.bar2.msg = "Chart") <=> (NumericCols(Charted) >= 2)
       /\ (NumericCols(Charted) = 0) => (last.page.bar.msg = "NoNumericDataForBar")

\* a run of the page that the pie's group-by ends draws neither bar chart:
\* the category column holds a number and a date, which cannot be sorted
C22_RunEndedAtPie ==
  (last.op = "render" /\ last.page.pie = Raised)
    => /\ last.page.bar = NotDrawn
       /\ last.page.bar2 = NotDrawn
       /\ {"int", "date"} \subseteq {c.k : c \in Distinct(PieCat)}

\* the Flask handler draws the bar chart of any two existing columns
C22_FlaskDrawsAnyColumns == (BarAsked /\ app = "flask") => BarDrawn

\* a line chart was drawn
LineDrawn ==
  \/ last.op = "render" /\ last.page.line.msg = "Chart"
  \/ last.op = "chart" /\ last.kind = "line" /\ last.status = "Chart"

\* a line chart was asked for: the page was drawn, or a well-formed request
\* for an existing column reached the Flask handler
LineAsked ==
  \/ last.op = "render"
  \/ last.op = "chart" /\ last.kind = "line" /\ last.body = "object" /\ HasCol(Charted, last.a)

TheLine == IF app = "streamlit" THEN last.page.line.fig ELSE last.fig

\* the position of the column plotted
LineCol == IF app = "streamlit" THEN numeric_cols(Charted)[1] ELSE ColIndex(Charted, last.a)

\* the rows where the plotted column holds a value, and those values in row order
Valued == {r \in 1..FrameLen(Charted) : NotNa(Column(Charted, LineCol)[r])}
NonMissing == Pick(Column(Charted, LineCol), Valued)

\* the first datetime column holds a date at every row that is plotted
DatesAlign ==
  /\ Len(date_cols(Charted)) > 0
  /\ \A r \in Valued : NotNa(Column(Charted, date_cols(Charted)[1])[r])

AlignedDates == Pick(Column(Charted, date_cols(Charted)[1]), Valued)

(* C23: the line chart plots the non-missing values of the chosen numeric   *)
(* column against the rows' natural order 1..n, or against the first        *)
(* datetime column when that column holds a date at each of the plotted     *)
(* rows; the x axis is always as long as the value sequence; with no        *)
(* numeric column the build fails (NoNumericColumn).                        *)
C23_LineAgainstOrderOrDates ==
  /\ (LineAsked /\ NumericCols(Charted) = 0) => ~LineDrawn
  /\ (LineDrawn /\ Charted.dtypes[LineCol] \in NumericDtypes)
       => /\ TheLine.y = NonMissing
          /\ Len(TheLine.x) = Len(TheLine.y)
          /\ TheLine.x = (IF DatesAlign THEN AlignedDates ELSE Positions(Len(NonMissing)))

\* what holds in both programs: as many x values as plotted values
C23_SameLength == LineDrawn => Len(TheLine.x) = Len(TheLine.y)

\* what the Streamlit page does: the non-missing values, against the aligned
\* dates, else against month names for up to 12 values, else against 1..n;
\* a notice in place of the chart without a numeric column
C23_StreamlitLine ==
  last.op = "render"
    => /\ (NumericCols(Charted) = 0) <=> (last.page.line.msg = "NoNumericDataForLine")
       /\ LineDrawn
            => /\ TheLine.y = NonMissing
               /\ TheLine.x = (IF DatesAlign THEN AlignedDates
                               ELSE IF Len(date_cols(Charted)) = 0 /\ Len(NonMissing) <= 12
                               THEN Months(Len(NonMissing))
                               ELSE Positions(Len(NonMissing)))

\* what the Flask handler does: every row of the chosen column, missing
\* values included, against the row index, whatever the column's dtype
C23_FlaskLine ==
  (LineAsked /\ app = "flask")
    => /\ LineDrawn
       /\ TheLine.y = Column(Charted, LineCol)
       /\ TheLine.x = RowIndex(Charted)

-----------------------------------------------------------------------------
(* Header recovery: trigger and scan (SpecSheets).                          *)

\* the header cells of the first row that are empty: pandas names their
\* columns "Unnamed: j"
SheetWidth == IF SheetRaw = <<>> THEN 0 ELSE Len(RowAt(SheetRaw, 0))

\* the positions whose name matches the placeholder pattern: the header
\* cell is empty, or holds a text with 'Unnamed:' in it
Placeholders ==
  {j \in 1..SheetWidth :
     LET c == RowAt(SheetRaw, 0)[j]
     IN IsNa(c) \/ (c.k = "str" /\ Contains(c.s, "Unnamed:"))}

(* C24: the spreadsheet reader starts the header repair exactly when        *)
(* strictly more than half of the parsed column names are placeholder       *)
(* names: with half or fewer the first parse is used and nothing is read    *)
(* again, with more than half the header-less read of the first rows is     *)
(* made.                                                                    *)
C24_TriggerMoreThanHalf ==
  SheetIngest
    => /\ last.scan.scanned <=> (2 * Cardinality(Placeholders) > SheetWidth)
       /\ ~last.scan.scanned => (last.scan.header_row = -1 /\ ParsedWithHeader(0))

\* a sheet whose first row names exactly half of its columns was uploaded:
\* no scan was made
C24_Witness ==
  /\ SheetIngest
  /\ SheetWidth = 2
  /\ Cardinality(Placeholders) = 1
  /\ ~last.scan.scanned
  /\ last.status = "Success"

\* the length of a cell's own text: the characters of a text cell, the
\* digits (and sign) of a number
TokenLen(c) ==
  IF c.k = "str" THEN Len(c.s)
  ELSE IF c.k = "date" THEN Len(DateStr(c.i))
  ELSE Digits(c.i)

\* the two tests of the scan on the row at index idx, on the cells' own text
Qualifies(idx) ==
  LET cells == RowAt(SheetScan, idx)
  IN /\ Cardinality({j \in 1..Len(cells) : NotNa(cells[j])}) >= 2
     /\ \E j \in 1..Len(cells) : NotNa(cells[j]) /\ TokenLen(cells[j]) > 2

\* the rows the scan looks at: the first 10 of the sheet
Scanned == 0..(NRows(SheetScan) - 1)

(* C25: when the header repair scans, the header row it declares is the     *)
(* smallest index among the first 10 rows (0..9) of the header-less parse   *)
(* whose row has at least 2 non-missing cells and a non-missing cell longer *)
(* than 2 characters; rows failing either test, a row of short numbers      *)
(* included, are skipped; a row at index 10 or later is never selected; if  *)
(* no row of 0..9 qualifies no header row is declared.                      *)
C25_FirstQualifyingRow ==
  (SheetIngest /\ last.scan.scanned)
    => /\ last.scan.header_row \in Scanned \cup {-1}
       /\ last.scan.header_row = -1 <=> (\A idx \in Scanned : ~Qualifies(idx))
       /\ last.scan.header_row /= -1
            => /\ Qualifies(last.scan.header_row)
               /\ \A idx \in Scanned : idx < last.scan.header_row => ~Qualifies(idx)

\* what holds: the same with the length of str(v) of the value as the
\* header-less frame holds it, where a number read into a column that has an
\* empty cell is a float and prints as "1.0"
C25_FirstQualifyingAsPrinted ==
  (SheetIngest /\ last.scan.scanned)
    => /\ last.scan.header_row \in Scanned \cup {-1}
       /\ last.scan.header_row = -1
            <=> (\A idx \in Scanned : ~RowQualifies(SheetScan, RowAt(SheetScan, idx)))
       /\ last.scan.header_row /= -1
            => /\ RowQualifies(SheetScan, RowAt(SheetScan, last.scan.header_row))
               /\ \A idx \in Scanned :
                    idx < last.scan.header_row
                      => ~RowQualifies(SheetScan, RowAt(SheetScan, idx))

\* a header row at index 10 is out of reach of the scan
C25_BeyondTenNotSelected ==
  (SheetIngest /\ last.scan.scanned /\ NRows(LastFile.content.raw) > 10)
    => last.scan.header_row < 10

-----------------------------------------------------------------------------
(* Upload history: one record per filename (Spec).                          *)

HistNames(h) == {h[i].filename : i \in 1..Len(h)}

C26_OnePerName == \A i, j \in 1..Len(Hist) : Hist[i].filename = Hist[j].filename => i = j

\* a successful upload of a name the history knows: the new record is at the
\* front, the older record of that name is gone, the other records stay, and
\* the history is as long as before
C26_ReuploadReplaces ==
  (last'.op \in UploadOps /\ last'.status = "Success" /\ Len(Hist') >= 1
     /\ Hist'[1].filename \in HistNames(Hist))
    => /\ Len(Hist') = Len(Hist)
       /\ Hist'[1].upload_time = clock'
       /\ \A i \in 2..Len(Hist') : Hist'[i].filename /= Hist'[1].filename
       /\ \A i \in 1..Len(Hist) :
            Hist[i].filename = Hist'[1].filename => Hist[i] \notin Range(Hist')
       /\ \A i \in 1..Len(Hist) :
            Hist[i].filename /= Hist'[1].filename => Hist[i] \in Range(Hist')

(* C26: in every reachable session state the upload history holds at most   *)
(* one record per filename: a successful upload of a filename already in    *)
(* the history removes the older record of that name and puts the new one   *)
(* at the front, so that the history does not grow on a re-upload.          *)
C26_OneRecordPerName == []C26_OnePerName /\ [][C26_ReuploadReplaces]_vars

\* the file of the first upload of a session was uploaded again: its record of
\* time 1 is gone, the new one is first, and the oldest record is the second
\* upload's
C26_Witness ==
  /\ last.op \in UploadOps
  /\ last.status = "Success"
  /\ Len(Hist) \in 3..(HISTORY_CAP - 1)
  /\ Hist[1].filename = SeedFile(1).name
  /\ Hist[1].upload_time = clock
  /\ Hist[Len(Hist)].upload_time = 2
  /\ C26_OnePerName

-----------------------------------------------------------------------------
(* File kind and extension (Spec).                                          *)

\* the extension allowed_file accepted, in lower case
AcceptedExt == Lower(RSplitExt(LastFile.name))

\* an upload whose name and size were accepted, so that a reader ran
Accepted == last.op \in UploadOps /\ last.parsed

(* C27: the file kind used by ingestion agrees with the extension that      *)
(* allowed_file accepted without regard to case: an accepted file whose     *)
(* extension is csv in any letter case is parsed by the CSV reader and      *)
(* recorded with is_excel false; one whose extension is xlsx or xls in any  *)
(* letter case is parsed by the spreadsheet reader and recorded with        *)
(* is_excel true.                                                           *)
C27_KindFollowsExtension ==
  Accepted
    => /\ (AcceptedExt = ExtCsv)
            => /\ last.reader = "csv"
               /\ (last.status = "Success") => ~Hist[1].is_excel
       /\ (AcceptedExt \in {ExtXlsx, ExtXls})
            => /\ last.reader = "excel"
               /\ (last.status = "Success") => Hist[1].is_excel

\* what holds: the kind follows the ending of the name as it is written (in
\* Flask, of the name that secure_filename returns), so the two agree for
\* the names whose extension is in lower case and survives secure_filename
C27_LowerCaseAgrees ==
  (Accepted /\ RSplitExt(LastFile.name) = AcceptedExt
     /\ (app = "flask" => secure_filename(LastFile.name) = LastFile.name))
    => C27_KindFollowsExtension

-----------------------------------------------------------------------------
(* Flask: the temporary copy of the uploaded file (Spec).                   *)

(* C28: in the Flask upload handler every request that saved a temporary    *)
(* copy of the uploaded file has removed it by the time it returns, on      *)
(* every path: success, rejection of an empty dataset, and any processing   *)
(* exception.                                                               *)
C28_TempFileRemoved ==
  (last.op = "upload_file" /\ last.temp_saved) => ~last.temp_left

\* what holds: the copy is removed on success and after an exception; the
\* rejection of an empty dataset returns with the copy still in the folder
C28_RemovedUnlessEmpty ==
  (last.op = "upload_file" /\ last.temp_saved)
    => /\ last.status \in {"Success", "ErrorProcessing", "EmptyFile"}
       /\ last.temp_left <=> (last.status = "EmptyFile")

====
